---- MODULE Spec2Model ----
(***************************************************************************)
(* The iorap orchestration core as a state machine:                        *)
(*   - the perfetto session tracker (perfetto/perfetto_consumer.cc),        *)
(*   - the package version cache   (binder/package_version_map.cc),         *)
(*   - the maintenance compilation controller (maintenance/controller.cc).  *)
(* Service threads call the operations; every operation is split at the    *)
(* points where it takes a mutex, forks or waits, so that interleavings     *)
(* of threads are behaviours of the model.                                  *)
(***************************************************************************)
EXTENDS Integers, Sequences, FiniteSets, TLC

\* ------------------------------------------------------------------ bounds

\* Largest handle the fake tracing engine issues (and callers name).
MaxHandle == 2

\* Largest package version the remote package manager reports.
MaxVersion == 2

\* On-demand queries the remote package manager answers in one run.
MaxQueries == 3

\* Per-activity compiles that get past the checks in one run.
MaxCompiles == 2

\* Launch histories handed to GetPerfettoTraceInfo in one call.
MaxHistories == 3

\* Largest request id of an event, and OnProgress callbacks of one request.
MaxRequests == 2

MaxProgress == 2

\* The service threads.
Threads == {"t1", "t2"}

None == "none"

\* ------------------------------------------------------- tracker: constants

kInvalidHandle == 0

StateKind ==
  {"kUncreated", "kCreated", "kStartedTracing", "kReadTracing",
   "kTimedOutDestroyed", "kDestroyed"}

Handles == 0..MaxHandle

EngineHandles == 1..MaxHandle

VARIABLES
  \* perfetto session tracker (PerfettoConsumerImpl::Impl)
  states_,          \* std::map<Handle, HandleDescription>
  last_created_,
  last_destroyed_,
  mutex_,           \* the tracker mutex: the thread holding it, or None
  raw_,             \* the tracing engine behind raw_ (a fake engine)
  aborted,          \* a CHECK failed: the process is gone
  \* package version cache (PackageVersionMap)
  version_map_,     \* VersionMap: package name -> version
  version_mutex_,   \* PackageVersionMap::mutex_: the thread holding it, or None
  remote,           \* the remote package manager: name -> installed version
  remote_queries,   \* GetPackageVersion calls the remote has received
  \* maintenance controller (maintenance/controller.cc)
  prefetch_files,       \* the PrefetchFile rows of the database, in insertion order
  disk,                 \* the compiled trace files that exist on disk
  last_job_info_,       \* LastJobInfo
  last_job_info_mutex_, \* the thread holding it, or None
  compiles,                \* per-activity compiles past the checks so far
  \* threads
  pc,               \* where each thread is
  arg,              \* the argument (or local) of the call a thread is in
  frame,            \* the locals of the controller call a thread is in
  is_it_locked,     \* Dump's local: did its try_lock take the mutex
  ret               \* what the last finished call of a thread returned

trackerVars == <<states_, last_created_, last_destroyed_, mutex_, raw_, aborted>>

cacheVars == <<version_map_, version_mutex_, remote, remote_queries>>

ctrlVars == <<prefetch_files, disk, last_job_info_, last_job_info_mutex_, compiles>>

threadVars == <<pc, arg, frame, is_it_locked, ret>>

vars == <<trackerVars, cacheVars, ctrlVars, threadVars>>

\* ------------------------------------------------------------ tracker model

\* The engine: how many handles it has issued, and per handle the calls it got.
\* issued: Create calls so far; monotone: every handle it returned was the next
\* one (1, 2, 3, ...); destroys[h]: how many Destroy(h) it received; late[h]:
\* how many StartTracing(h) or ReadTrace(h) it received after a Destroy(h).
RawInit ==
  [issued |-> 0,
   monotone |-> TRUE,
   destroys |-> [h \in Handles |-> 0],
   late     |-> [h \in Handles |-> 0]]

\* raw_->StartTracing(h), raw_->ReadTrace(h)
RawUse(raw, h) ==
  [raw EXCEPT !.late[h] = IF raw.destroys[h] > 0 THEN @ + 1 ELSE @]

\* raw_->Destroy(h)
RawDestroy(raw, h) ==
  [raw EXCEPT !.destroys[h] = @ + 1]

\* raw_->Create(...): the handle is the engine's choice
RawCreate(raw, h) ==
  [raw EXCEPT !.issued = @ + 1,
              !.monotone = @ /\ h = raw.issued + 1]

\* what raw_->ReadTrace(h) hands back, and the empty TraceBuffer{}
RawTraceBuffer(h) == <<"trace", h>>

EmptyTraceBuffer == << >>

TrackerInit ==
  /\ states_ = << >>
  /\ last_created_ = 0
  /\ last_destroyed_ = 0
  /\ mutex_ = None
  /\ raw_ = RawInit
  /\ aborted = FALSE

NoRet == [op |-> "none"]

\* The call frame of a thread that is not in the controller.
NoFrame == [mode |-> "none"]

ThreadInit ==
  /\ pc = [t \in Threads |-> "idle"]
  /\ arg = [t \in Threads |-> 0]
  /\ frame = [t \in Threads |-> NoFrame]
  /\ is_it_locked = [t \in Threads |-> FALSE]
  /\ ret = [t \in Threads |-> NoRet]

Tracked(h) == h \in DOMAIN states_

\* UpdateHandleDescription: sets the kind (the polled engine state and the
\* time stamps are for the logs only).
UpdateHandleDescription(desc, kind) ==
  [desc EXCEPT !.kind_ = kind]

\* std::map erase / insert
MapErase(m, h) == [k \in DOMAIN m \ {h} |-> m[k]]

MapPut(m, h, v) == [k \in DOMAIN m \cup {h} |-> IF k = h THEN v ELSE m[k]]

\* std::lock_guard on the tracker mutex
Lock(t) == mutex_ = None /\ mutex_' = t

\* Thread t is at label l of an operation, and the process is alive.
At(t, l) == ~aborted /\ pc[t] = l

\* A thread enters an operation with argument a: its previous result is gone.
Call(t, l, a) ==
  /\ ~aborted
  /\ pc[t] = "idle"
  /\ pc' = [pc EXCEPT ![t] = l]
  /\ arg' = [arg EXCEPT ![t] = a]
  /\ UNCHANGED frame
  /\ ret' = [ret EXCEPT ![t] = NoRet]

\* A thread moves on inside an operation.
Goto(t, l) == pc' = [pc EXCEPT ![t] = l] /\ UNCHANGED <<arg, frame, ret>>

\* The operation returns r to its caller.
Return(t, r) ==
  /\ pc' = [pc EXCEPT ![t] = "idle"]
  /\ arg' = [arg EXCEPT ![t] = 0]
  /\ frame' = [frame EXCEPT ![t] = NoFrame]
  /\ ret' = [ret EXCEPT ![t] = r]

Unlock == mutex_' = None

\* ---- Create (perfetto_consumer.cc 116-142)

\* The engine call, before the mutex is taken. A sound engine returns
\* issued + 1; a faulty one any handle (kInvalidHandle on failure).
Create_raw(t) ==
  /\ raw_.issued < MaxHandle
  /\ \E handle \in Handles :
       /\ raw_' = RawCreate(raw_, handle)
       /\ Call(t, "Create_lock", handle)
  /\ UNCHANGED <<states_, last_created_, last_destroyed_, mutex_, aborted, is_it_locked, cacheVars, ctrlVars>>

Create_lock(t) ==
  /\ At(t, "Create_lock")
  /\ Lock(t)
  /\ Goto(t, "Create_body")
  /\ UNCHANGED <<states_, last_created_, last_destroyed_, raw_, aborted, is_it_locked, cacheVars, ctrlVars>>

\* Create without its CHECKs: whatever the engine returned is tracked.
Create_body_unchecked(t) ==
  /\ At(t, "Create_body")
  /\ last_created_' = last_created_ + 1
  /\ states_' = MapPut(states_, arg[t],
       UpdateHandleDescription([handle_ |-> arg[t], kind_ |-> "kUncreated"], "kCreated"))
  /\ Unlock
  /\ Return(t, [op |-> "Create", handle |-> arg[t]])
  /\ UNCHANGED <<last_destroyed_, raw_, aborted, is_it_locked, cacheVars, ctrlVars>>

\* ++last_created_; CHECK_EQ; CHECK(not tracked); states_[handle] = desc.
\* A failed CHECK aborts the process: no thread takes another step.
Create_body(t) ==
  /\ At(t, "Create_body")
  /\ last_created_' = last_created_ + 1
  /\ IF last_created_' # arg[t] \/ Tracked(arg[t])
       THEN /\ aborted' = TRUE
            /\ Goto(t, "aborted")
            /\ UNCHANGED <<states_, mutex_>>
       ELSE /\ states_' = MapPut(states_, arg[t],
                 UpdateHandleDescription(
                   [handle_ |-> arg[t], kind_ |-> "kUncreated"], "kCreated"))
            /\ Unlock
            /\ Return(t, [op |-> "Create", handle |-> arg[t]])
            /\ UNCHANGED aborted
  /\ UNCHANGED <<last_destroyed_, raw_, is_it_locked, cacheVars, ctrlVars>>

\* ---- StartTracing (144-160)

StartTracing(t, handle) ==
  /\ Call(t, "StartTracing_lock", handle)
  /\ UNCHANGED <<states_, last_created_, last_destroyed_, mutex_, raw_, aborted, is_it_locked, cacheVars, ctrlVars>>

StartTracing_lock(t) ==
  /\ At(t, "StartTracing_lock")
  /\ Lock(t)
  /\ Goto(t, "StartTracing_body")
  /\ UNCHANGED <<states_, last_created_, last_destroyed_, raw_, aborted, is_it_locked, cacheVars, ctrlVars>>

StartTracing_body(t) ==
  /\ At(t, "StartTracing_body")
  /\ IF ~Tracked(arg[t])
       THEN /\ Return(t, [op |-> "StartTracing", tracked |-> FALSE])
            /\ UNCHANGED <<states_, raw_>>
       ELSE /\ raw_' = RawUse(raw_, arg[t])
            /\ states_' = [states_ EXCEPT ![arg[t]] =
                             UpdateHandleDescription(@, "kStartedTracing")]
            /\ Return(t, [op |-> "StartTracing", tracked |-> TRUE])
  /\ Unlock
  /\ UNCHANGED <<last_created_, last_destroyed_, aborted, is_it_locked, cacheVars, ctrlVars>>

\* ---- ReadTrace (162-179)

ReadTrace(t, handle) ==
  /\ Call(t, "ReadTrace_lock", handle)
  /\ UNCHANGED <<states_, last_created_, last_destroyed_, mutex_, raw_, aborted, is_it_locked, cacheVars, ctrlVars>>

\* ReadTrace without its lock_guard.
ReadTrace_lock_skipped(t) ==
  /\ At(t, "ReadTrace_lock")
  /\ Goto(t, "ReadTrace_body")
  /\ UNCHANGED <<states_, last_created_, last_destroyed_, mutex_, raw_, aborted, is_it_locked, cacheVars, ctrlVars>>

ReadTrace_lock(t) ==
  /\ At(t, "ReadTrace_lock")
  /\ Lock(t)
  /\ Goto(t, "ReadTrace_body")
  /\ UNCHANGED <<states_, last_created_, last_destroyed_, raw_, aborted, is_it_locked, cacheVars, ctrlVars>>

\* ReadTrace that asks the engine whether or not the handle is tracked.
ReadTrace_body_passthrough(t) ==
  /\ At(t, "ReadTrace_body")
  /\ raw_' = RawUse(raw_, arg[t])
  /\ states_' = IF Tracked(arg[t])
                  THEN [states_ EXCEPT ![arg[t]] = UpdateHandleDescription(@, "kReadTracing")]
                  ELSE states_
  /\ Return(t, [op |-> "ReadTrace", buffer |-> RawTraceBuffer(arg[t])])
  /\ Unlock
  /\ UNCHANGED <<last_created_, last_destroyed_, aborted, is_it_locked, cacheVars, ctrlVars>>

ReadTrace_body(t) ==
  /\ At(t, "ReadTrace_body")
  /\ IF ~Tracked(arg[t])
       THEN /\ Return(t, [op |-> "ReadTrace",
                          buffer |-> EmptyTraceBuffer])
            /\ UNCHANGED <<states_, raw_>>
       ELSE /\ raw_' = RawUse(raw_, arg[t])
            /\ states_' = [states_ EXCEPT ![arg[t]] =
                             UpdateHandleDescription(@, "kReadTracing")]
            /\ Return(t, [op |-> "ReadTrace",
                          buffer |-> RawTraceBuffer(arg[t])])
  /\ Unlock
  /\ UNCHANGED <<last_created_, last_destroyed_, aborted, is_it_locked, cacheVars, ctrlVars>>

\* ---- Destroy (181-201)

Destroy(t, handle) ==
  /\ Call(t, "Destroy_lock", handle)
  /\ UNCHANGED <<states_, last_created_, last_destroyed_, mutex_, raw_, aborted, is_it_locked, cacheVars, ctrlVars>>

Destroy_lock(t) ==
  /\ At(t, "Destroy_lock")
  /\ Lock(t)
  /\ Goto(t, "Destroy_update")
  /\ UNCHANGED <<states_, last_created_, last_destroyed_, raw_, aborted, is_it_locked, cacheVars, ctrlVars>>

\* Destroy that calls the engine before it looks the handle up.
Destroy_update_eager(t) ==
  /\ At(t, "Destroy_update")
  /\ raw_' = RawDestroy(raw_, arg[t])
  /\ IF ~Tracked(arg[t])
       THEN /\ Return(t, [op |-> "Destroy", tracked |-> FALSE])
            /\ Unlock
            /\ UNCHANGED states_
       ELSE /\ states_' = [states_ EXCEPT ![arg[t]] =
                             UpdateHandleDescription(@, "kDestroyed")]
            /\ Goto(t, "Destroy_erase")
            /\ UNCHANGED mutex_
  /\ UNCHANGED <<last_created_, last_destroyed_, aborted, is_it_locked, cacheVars, ctrlVars>>

\* find; untracked: return. Else raw_->Destroy and the kind becomes kDestroyed.
Destroy_update(t) ==
  /\ At(t, "Destroy_update")
  /\ IF ~Tracked(arg[t])
       THEN /\ Return(t, [op |-> "Destroy", tracked |-> FALSE])
            /\ Unlock
            /\ UNCHANGED <<states_, raw_>>
       ELSE /\ raw_' = RawDestroy(raw_, arg[t])
            /\ states_' = [states_ EXCEPT ![arg[t]] =
                             UpdateHandleDescription(@, "kDestroyed")]
            /\ Goto(t, "Destroy_erase")
            /\ UNCHANGED mutex_
  /\ UNCHANGED <<last_created_, last_destroyed_, aborted, is_it_locked, cacheVars, ctrlVars>>

\* Destroy that leaves the destroyed entry in the map.
Destroy_erase_skipped(t) ==
  /\ At(t, "Destroy_erase")
  /\ last_destroyed_' = arg[t]
  /\ Unlock
  /\ Return(t, [op |-> "Destroy", tracked |-> TRUE])
  /\ UNCHANGED <<states_, last_created_, raw_, aborted, is_it_locked, cacheVars, ctrlVars>>

\* last_destroyed_ = handle; states_.erase(it); the guard unlocks.
Destroy_erase(t) ==
  /\ At(t, "Destroy_erase")
  /\ last_destroyed_' = arg[t]
  /\ states_' = MapErase(states_, arg[t])
  /\ Unlock
  /\ Return(t, [op |-> "Destroy", tracked |-> TRUE])
  /\ UNCHANGED <<last_created_, raw_, aborted, is_it_locked, cacheVars, ctrlVars>>

\* ---- GetOrInferHandleDescription (210-227), IsDestroyed, IsUncreated (245-310)

\* The returns after "if (it == states_.end())" are dead code: the iterator of an
\* untracked handle is always end().
IsDestroyed(handle) ==
  IF Tracked(handle) THEN FALSE
  ELSE IF handle = kInvalidHandle THEN FALSE
  ELSE handle <= last_destroyed_

IsUncreated(handle) ==
  IF Tracked(handle) THEN FALSE
  ELSE IF handle = kInvalidHandle THEN TRUE
  ELSE handle > last_destroyed_

\* The kinds a HandleDescription that was never assigned may hold.
UninitializedKinds == StateKind \cup {"(invalid)"}

GetOrInferHandleDescription(t, handle) ==
  /\ Call(t, "GetOrInfer_lock", handle)
  /\ UNCHANGED <<states_, last_created_, last_destroyed_, mutex_, raw_, aborted, is_it_locked, cacheVars, ctrlVars>>

GetOrInfer_lock(t) ==
  /\ At(t, "GetOrInfer_lock")
  /\ Lock(t)
  /\ Goto(t, "GetOrInfer_body")
  /\ UNCHANGED <<states_, last_created_, last_destroyed_, raw_, aborted, is_it_locked, cacheVars, ctrlVars>>

\* Untracked: "HandleDescription state;" is returned as it is unless the handle
\* counts as destroyed, so its kind_ is whatever the stack held.
GetOrInfer_body(t) ==
  /\ At(t, "GetOrInfer_body")
  /\ IF Tracked(arg[t])
       THEN Return(t, [op |-> "GetOrInfer", tracked |-> TRUE,
                       kind_ |-> states_[arg[t]].kind_, warned |-> FALSE])
       ELSE IF IsDestroyed(arg[t])
         THEN Return(t, [op |-> "GetOrInfer", tracked |-> FALSE,
                         kind_ |-> "kDestroyed", warned |-> FALSE])
         ELSE \E k \in UninitializedKinds :
                Return(t, [op |-> "GetOrInfer", tracked |-> FALSE,
                           kind_ |-> k, warned |-> ~IsUncreated(arg[t])])
  /\ Unlock
  /\ UNCHANGED <<states_, last_created_, last_destroyed_, raw_, aborted, is_it_locked, cacheVars, ctrlVars>>

\* ---- Dump (313-343)

Dump(t) ==
  /\ Call(t, "Dump_try_lock", 0)
  /\ UNCHANGED <<trackerVars, cacheVars, ctrlVars, is_it_locked>>

\* A Dump that waits for the mutex (lock() in the place of try_lock()).
Dump_lock_blocking(t) ==
  /\ At(t, "Dump_try_lock")
  /\ Lock(t)
  /\ is_it_locked' = [is_it_locked EXCEPT ![t] = TRUE]
  /\ Goto(t, "Dump_print")
  /\ UNCHANGED <<states_, last_created_, last_destroyed_, raw_, aborted, cacheVars, ctrlVars>>

\* bool is_it_locked = mutex_.try_lock(): never waits.
Dump_try_lock(t) ==
  /\ At(t, "Dump_try_lock")
  /\ is_it_locked' = [is_it_locked EXCEPT ![t] = (mutex_ = None)]
  /\ mutex_' = IF mutex_ = None THEN t ELSE mutex_
  /\ Goto(t, "Dump_print")
  /\ UNCHANGED <<states_, last_created_, last_destroyed_, raw_, aborted, cacheVars, ctrlVars>>

\* The lines handed to the printer: the fixed lines, then the block of an
\* in-flight entry for the entries the loop visits, or "(None)".
DumpLines(empty) ==
  [lines |-> <<"Perfetto consumer state:", "  Last destroyed handle: %",
               "  Last created handle: %", "", "  In-flight handles:">>
             \o (IF empty THEN <<"    (None)">>
                 ELSE <<"    Handle %", "      Kind: %", "      Perfetto State: %",
                        "      Started tracing at: %", "      Last transition at: %">>)
             \o <<"">>]

\* What states_.empty() and the walk of states_ may see when they run without
\* the lock while another thread changes the map.
RacyEmpty == BOOLEAN

\* print; unlock only if try_lock took the mutex.
Dump_print(t) ==
  /\ At(t, "Dump_print")
  /\ \E empty \in (IF is_it_locked[t] THEN {DOMAIN states_ = {}} ELSE RacyEmpty) :
       Return(t, [op |-> "Dump", out |-> DumpLines(empty),
                  locked |-> is_it_locked[t]])
  /\ mutex_' = IF is_it_locked[t] THEN None ELSE mutex_
  /\ is_it_locked' = [is_it_locked EXCEPT ![t] = FALSE]
  /\ UNCHANGED <<states_, last_created_, last_destroyed_, raw_, aborted, cacheVars, ctrlVars>>

TrackerNext ==
  \/ \E t \in Threads : Create_raw(t)
  \/ \E t \in Threads : Create_lock(t)
  \/ \E t \in Threads : Create_body(t)
  \/ \E t \in Threads, h \in Handles : StartTracing(t, h)
  \/ \E t \in Threads : StartTracing_lock(t)
  \/ \E t \in Threads : StartTracing_body(t)
  \/ \E t \in Threads, h \in Handles : ReadTrace(t, h)
  \/ \E t \in Threads : ReadTrace_lock(t)
  \/ \E t \in Threads : ReadTrace_body(t)
  \/ \E t \in Threads, h \in Handles : Destroy(t, h)
  \/ \E t \in Threads : Destroy_lock(t)
  \/ \E t \in Threads : Destroy_update(t)
  \/ \E t \in Threads : Destroy_erase(t)
  \/ \E t \in Threads, h \in Handles : GetOrInferHandleDescription(t, h)
  \/ \E t \in Threads : GetOrInfer_lock(t)
  \/ \E t \in Threads : GetOrInfer_body(t)
  \/ \E t \in Threads : Dump(t)
  \/ \E t \in Threads : Dump_try_lock(t)
  \/ \E t \in Threads : Dump_print(t)

\* ------------------------------------------------------ version cache model
\* binder/package_version_map.cc

Names == {"pkg", "other"}

Versions == 1..MaxVersion

\* The remote's answer for a package that is not installed.
NotInstalled == 0

\* The "unknown" result of GetOrQueryPackageVersion.
kUnknownVersion == -1

\* package_manager_->GetPackageVersionMap(): the installed packages.
GetPackageVersionMap(rem) ==
  [n \in {m \in Names : rem[m] # NotInstalled} |-> rem[n]]

\* package_manager_->GetPackageVersion(name): the installed version, or nothing
\* (the package is not installed, or the remote call failed).
GetPackageVersion(rem, name) ==
  (IF rem[name] # NotInstalled THEN {rem[name]} ELSE {}) \cup {NotInstalled}

\* PackageVersionMap::Create: the map is the remote's snapshot.
CacheInit ==
  /\ remote \in [Names -> Versions \cup {NotInstalled}]
  /\ version_map_ = GetPackageVersionMap(remote)
  /\ version_mutex_ = None
  /\ remote_queries = 0

\* The cache of a service whose threads do not use it.
CacheQuiet ==
  /\ remote = [n \in Names |-> NotInstalled]
  /\ version_map_ = << >>
  /\ version_mutex_ = None
  /\ remote_queries = 0

VersionLock(t) == version_mutex_ = None /\ version_mutex_' = t

VersionUnlock == version_mutex_' = None

\* A package is installed, upgraded or removed: the world outside the service.
RemoteChange(name, v) ==
  /\ ~aborted
  /\ remote[name] # v
  /\ remote' = [remote EXCEPT ![name] = v]
  /\ UNCHANGED <<version_map_, version_mutex_, remote_queries, trackerVars, ctrlVars, threadVars>>

\* ---- Update (34-40)

Update(t) ==
  /\ Call(t, "Update_lock", 0)
  /\ UNCHANGED <<cacheVars, trackerVars, ctrlVars, is_it_locked>>

Update_lock(t) ==
  /\ At(t, "Update_lock")
  /\ VersionLock(t)
  /\ Goto(t, "Update_body")
  /\ UNCHANGED <<version_map_, remote, remote_queries, trackerVars, ctrlVars, is_it_locked>>

\* An Update that adds the snapshot to the map and keeps the entries it had.
Update_body_merging(t) ==
  /\ At(t, "Update_body")
  /\ version_map_' =
       [n \in DOMAIN version_map_ \cup DOMAIN GetPackageVersionMap(remote) |->
          IF n \in DOMAIN GetPackageVersionMap(remote)
            THEN GetPackageVersionMap(remote)[n] ELSE version_map_[n]]
  /\ VersionUnlock
  /\ Return(t, [op |-> "Update", old_size |-> Cardinality(DOMAIN version_map_),
                size |-> Cardinality(DOMAIN version_map_')])
  /\ UNCHANGED <<remote, remote_queries, trackerVars, ctrlVars, is_it_locked>>

Update_body(t) ==
  /\ At(t, "Update_body")
  /\ version_map_' = GetPackageVersionMap(remote)
  /\ VersionUnlock
  /\ Return(t, [op |-> "Update", old_size |-> Cardinality(DOMAIN version_map_),
                size |-> Cardinality(DOMAIN version_map_')])
  /\ UNCHANGED <<remote, remote_queries, trackerVars, ctrlVars, is_it_locked>>

\* ---- Size (42): reads the map without the mutex

Size(t) ==
  /\ Call(t, "Size_read", 0)
  /\ UNCHANGED <<cacheVars, trackerVars, ctrlVars, is_it_locked>>

Size_read(t) ==
  /\ At(t, "Size_read")
  /\ Return(t, [op |-> "Size", size |-> Cardinality(DOMAIN version_map_)])
  /\ UNCHANGED <<cacheVars, trackerVars, ctrlVars, is_it_locked>>

\* ---- GetOrQueryPackageVersion (44-65)

GetOrQueryPackageVersion(t, package_name) ==
  /\ Call(t, "GetOrQuery_lock", package_name)
  /\ UNCHANGED <<cacheVars, trackerVars, ctrlVars, is_it_locked>>

GetOrQuery_lock(t) ==
  /\ At(t, "GetOrQuery_lock")
  /\ VersionLock(t)
  /\ Goto(t, "GetOrQuery_find")
  /\ UNCHANGED <<version_map_, remote, remote_queries, trackerVars, ctrlVars, is_it_locked>>

\* find: a hit returns it->second; a miss goes on to ask the remote.
GetOrQuery_find(t) ==
  /\ At(t, "GetOrQuery_find")
  /\ IF arg[t] \in DOMAIN version_map_
       THEN /\ Return(t, [op |-> "GetOrQuery", name |-> arg[t],
                          version |-> version_map_[arg[t]], queried |-> FALSE])
            /\ VersionUnlock
       ELSE /\ Goto(t, "GetOrQuery_query")
            /\ UNCHANGED version_mutex_
  /\ UNCHANGED <<version_map_, remote, remote_queries, trackerVars, ctrlVars, is_it_locked>>

\* The on-demand query without the write-back into the map.
GetOrQuery_query_forgetful(t) ==
  /\ At(t, "GetOrQuery_query")
  /\ remote_queries < MaxQueries
  /\ remote_queries' = remote_queries + 1
  /\ \E version \in GetPackageVersion(remote, arg[t]) :
       Return(t, [op |-> "GetOrQuery", name |-> arg[t],
                  version |-> IF version # NotInstalled THEN version ELSE kUnknownVersion,
                  queried |-> TRUE])
  /\ VersionUnlock
  /\ UNCHANGED <<version_map_, remote, trackerVars, ctrlVars, is_it_locked>>

\* The on-demand query that remembers a failed answer as the version -1.
GetOrQuery_query_caches_unknown(t) ==
  /\ At(t, "GetOrQuery_query")
  /\ remote_queries < MaxQueries
  /\ remote_queries' = remote_queries + 1
  /\ \E version \in GetPackageVersion(remote, arg[t]) :
       LET answer == IF version # NotInstalled THEN version ELSE kUnknownVersion
       IN /\ version_map_' = MapPut(version_map_, arg[t], answer)
          /\ Return(t, [op |-> "GetOrQuery", name |-> arg[t],
                        version |-> answer, queried |-> TRUE])
  /\ VersionUnlock
  /\ UNCHANGED <<remote, trackerVars, ctrlVars, is_it_locked>>

\* The on-demand query, still under the mutex; a version is written back.
GetOrQuery_query(t) ==
  /\ At(t, "GetOrQuery_query")
  /\ remote_queries < MaxQueries
  /\ remote_queries' = remote_queries + 1
  /\ \E version \in GetPackageVersion(remote, arg[t]) :
       IF version # NotInstalled
         THEN /\ version_map_' = MapPut(version_map_, arg[t], version)
              /\ Return(t, [op |-> "GetOrQuery", name |-> arg[t],
                            version |-> version, queried |-> TRUE])
         ELSE /\ UNCHANGED version_map_
              /\ Return(t, [op |-> "GetOrQuery", name |-> arg[t],
                            version |-> kUnknownVersion, queried |-> TRUE])
  /\ VersionUnlock
  /\ UNCHANGED <<remote, trackerVars, ctrlVars, is_it_locked>>

CacheNext ==
  \/ \E n \in Names, v \in Versions \cup {NotInstalled} : RemoteChange(n, v)
  \/ \E t \in Threads : Update(t)
  \/ \E t \in Threads : Update_lock(t)
  \/ \E t \in Threads : Update_body(t)
  \/ \E t \in Threads : Size(t)
  \/ \E t \in Threads : Size_read(t)
  \/ \E t \in Threads, n \in Names : GetOrQueryPackageVersion(t, n)
  \/ \E t \in Threads : GetOrQuery_lock(t)
  \/ \E t \in Threads : GetOrQuery_find(t)
  \/ \E t \in Threads : GetOrQuery_query(t)

\* -------------------------------------------------------- controller model
\* maintenance/controller.cc

kMinTracesForCompilation == 3

\* std::numeric_limits<uint64_t>::max(), as the largest integer of the model.
kUint64Max == 2147483647

\* An optional value: the empty set, or the set of its value.
Nothing == {}

Some(v) == {v}

ValueOf(opt) == CHOOSE v \in opt : TRUE

\* ---- the database the controller reads (db::*Model), a fixed store:
\* one package, pkg at version 1, with the activities Main and Settings.
PackageRows ==
  <<[id |-> 1, name |-> "pkg", version |-> 1]>>

ActivityRows ==
  <<[id |-> 1, name |-> "Main", package_id |-> 1],
    [id |-> 2, name |-> "Settings", package_id |-> 1]>>

\* pkg/Main: three launches with raw traces (limits 100, 200 and total 300);
\* pkg/Settings: three launches, two of them with a raw trace, one without any
\* time.
HistoryRows ==
  <<[id |-> 1, activity_id |-> 1, report_fully_drawn_ns |-> Some(100), total_time_ns |-> Nothing],
    [id |-> 2, activity_id |-> 1, report_fully_drawn_ns |-> Some(200), total_time_ns |-> Some(250)],
    [id |-> 3, activity_id |-> 1, report_fully_drawn_ns |-> Nothing, total_time_ns |-> Some(300)],
    [id |-> 4, activity_id |-> 2, report_fully_drawn_ns |-> Nothing, total_time_ns |-> Nothing],
    [id |-> 5, activity_id |-> 2, report_fully_drawn_ns |-> Some(400), total_time_ns |-> Nothing],
    [id |-> 6, activity_id |-> 2, report_fully_drawn_ns |-> Nothing, total_time_ns |-> Some(600)]>>

RawTraceRows ==
  <<[history_id |-> 1, file_path |-> "t1.pb"],
    [history_id |-> 2, file_path |-> "t2.pb"],
    [history_id |-> 3, file_path |-> "t3.pb"],
    [history_id |-> 4, file_path |-> "t4.pb"],
    [history_id |-> 6, file_path |-> "t6.pb"]>>

\* The first row of a sequence as an optional
FirstOf(rows) == IF rows = << >> THEN Nothing ELSE Some(Head(rows))

PackageModel_SelectAll == PackageRows

PackageModel_SelectByNameAndVersion(name, version) ==
  LET Match(r) == r.name = name /\ r.version = version
  IN FirstOf(SelectSeq(PackageRows, Match))

ActivityModel_SelectByPackageId(package_id) ==
  LET Match(r) == r.package_id = package_id
  IN SelectSeq(ActivityRows, Match)

ActivityModel_SelectByNameAndPackageId(name, package_id) ==
  LET Match(r) == r.name = name /\ r.package_id = package_id
  IN FirstOf(SelectSeq(ActivityRows, Match))

AppLaunchHistoryModel_SelectActivityHistoryForCompile(activity_id) ==
  LET Match(r) == r.activity_id = activity_id
  IN SelectSeq(HistoryRows, Match)

RawTraceModel_SelectByHistoryId(history_id) ==
  LET Match(r) == r.history_id = history_id
  IN FirstOf(SelectSeq(RawTraceRows, Match))

\* CalculateNewestFilePath(...).FilePath(): a pure, one-to-one function of the
\* versioned component name.
CalculateNewestFilePath(package_name, activity_name, version) ==
  <<package_name, activity_name, version>>

\* ---- GetPerfettoTraceInfo (166-193)

\* A limit that prefers total_time_ns to report_fully_drawn_ns.
TimestampLimit_total_first(history) ==
  IF history.total_time_ns # Nothing THEN ValueOf(history.total_time_ns)
  ELSE IF history.report_fully_drawn_ns # Nothing
    THEN ValueOf(history.report_fully_drawn_ns)
  ELSE kUint64Max

\* The effective timestamp limit of a history (181-190).
TimestampLimit(history) ==
  IF history.report_fully_drawn_ns # Nothing THEN ValueOf(history.report_fully_drawn_ns)
  ELSE IF history.total_time_ns # Nothing THEN ValueOf(history.total_time_ns)
  ELSE kUint64Max

RECURSIVE GetPerfettoTraceInfo(_)
GetPerfettoTraceInfo(histories) ==
  IF histories = << >> THEN << >>
  ELSE LET history == Head(histories)
           raw_trace == RawTraceModel_SelectByHistoryId(history.id)
       IN IF raw_trace = Nothing
            THEN GetPerfettoTraceInfo(Tail(histories))
            ELSE <<[filename |-> ValueOf(raw_trace).file_path,
                    timestamp_limit_ns |-> TimestampLimit(history)]>>
                 \o GetPerfettoTraceInfo(Tail(histories))

\* ---- state

\* time(nullptr): some moment after the epoch.
Now == 1

ControllerInit ==
  /\ prefetch_files = << >>
  /\ disk = {CalculateNewestFilePath("pkg", "Gone", 1)}
  /\ last_job_info_ = [last_run_ns_ |-> 0, activities_last_compiled_ |-> 0]
  /\ last_job_info_mutex_ = None
  /\ compiles = 0

\* The controller of a service whose threads do not use it.
ControllerQuiet ==
  /\ prefetch_files = << >>
  /\ disk = {}
  /\ last_job_info_ = [last_run_ns_ |-> 0, activities_last_compiled_ |-> 0]
  /\ last_job_info_mutex_ = None
  /\ compiles = 0

\* t runs in a forked child of the service: in the copy of the worker thread
\* that Fork made, whose Execve has returned.
InChild(t) == frame[t].saved # << >>

\* The lock, the unlock and the write of LastJobInfo by t. A forked child works
\* on its own copies: the mutex as Fork found it, which nothing in the child
\* unlocks if another thread held it, and a LastJobInfo the service never sees.
JobLock(t) ==
  IF InChild(t)
    THEN frame[t].forked_mutex = None /\ UNCHANGED last_job_info_mutex_
    ELSE last_job_info_mutex_ = None /\ last_job_info_mutex_' = t

JobUnlock(t) ==
  IF InChild(t) THEN UNCHANGED last_job_info_mutex_ ELSE last_job_info_mutex_' = None

SetJobInfo(t, info) ==
  IF InChild(t) THEN UNCHANGED last_job_info_ ELSE last_job_info_' = info

\* The forked child t runs in ends, and the waitpid of its parent returns wstatus.
ChildEnds(t, wstatus) ==
  /\ pc' = [pc EXCEPT ![t] = "StartViaFork_status"]
  /\ frame' = [frame EXCEPT ![t] = [Head(frame[t].saved) EXCEPT !.wstatus = wstatus]]
  /\ UNCHANGED <<arg, ret>>

\* What waitpid may report: a normal exit with a code, or a death by signal.
Signalled == [exited |-> FALSE, code |-> 0]

WaitStatuses ==
  {[exited |-> TRUE, code |-> 0], [exited |-> TRUE, code |-> 1], Signalled}

\* The status word before waitpid has filled it.
NoStatus == [exited |-> FALSE, code |-> -1]

WIFEXITED(wstatus) == wstatus.exited

WEXITSTATUS(wstatus) == wstatus.code

\* The work item of CompileActivity, and the call frame of a compile entry point.
Job(package_id, package_name, activity_name, version) ==
  [package_id |-> package_id, package_name |-> package_name,
   activity_name |-> activity_name, version |-> version]

\* The tables CompileActivity reads for a job: the activity row (239-240), the
\* histories (249-250) and the raw traces of the histories (170).
AllTables == {"Activity", "AppLaunchHistory", "RawTrace"}

\* attempted is the verification's count of the jobs of the call that got past
\* the checks of CompileActivity; reads is its record of the tables the latest
\* CompileActivity of the call has read, results its record of what each
\* CompileActivity of the call has returned; wstatus is what the latest waitpid
\* of the call reported. In a forked child, saved holds the frame of the parent,
\* which is in waitpid, and forked_mutex the holder of last_job_info_mutex_ that
\* Fork copied.
Frame(mode, params, todo) ==
  [mode |-> mode, params |-> params, todo |-> todo, ret |-> TRUE, wstatus |-> NoStatus,
   attempted |-> 0, reads |-> {}, results |-> << >>, saved |-> << >>,
   forked_mutex |-> None]

\* The jobs CompilePackage runs for a package row (328-336).
PackageJobs(package, version) ==
  LET activities == ActivityModel_SelectByPackageId(package.id)
  IN [i \in 1..Len(activities) |->
        Job(package.id, package.name, activities[i].name, version)]

RECURSIVE DeviceJobs(_)
DeviceJobs(packages) ==
  IF packages = << >> THEN << >>
  ELSE LET package == Head(packages)
           found == PackageModel_SelectByNameAndVersion(package.name, package.version)
       IN (IF found = Nothing THEN << >>
           ELSE PackageJobs(ValueOf(found), package.version))
          \o DeviceJobs(Tail(packages))

ControllerParameters ==
  [recompile : BOOLEAN, min_traces : {0, kMinTracesForCompilation}]

\* A thread enters the controller with a call frame.
Enter(t, l, f) ==
  /\ ~aborted
  /\ pc[t] = "idle"
  /\ pc' = [pc EXCEPT ![t] = l]
  /\ frame' = [frame EXCEPT ![t] = f]
  /\ ret' = [ret EXCEPT ![t] = NoRet]
  /\ UNCHANGED arg

\* A loop that stops at the first activity that fails.
FinishJob_break_on_failure(t, f, r) ==
  LET next == [f EXCEPT !.todo = IF r THEN Tail(@) ELSE << >>, !.ret = @ /\ r,
                        !.results = Append(@, r)]
  IN IF next.todo # << >>
       THEN /\ pc' = [pc EXCEPT ![t] = "CompileActivity"]
            /\ frame' = [frame EXCEPT ![t] = next]
            /\ UNCHANGED <<arg, ret>>
       ELSE IF next.mode = "device"
         THEN /\ pc' = [pc EXCEPT ![t] = "CompileAppsOnDevice_stamp_lock"]
              /\ frame' = [frame EXCEPT ![t] = next]
              /\ UNCHANGED <<arg, ret>>
         ELSE IF next.saved # << >>
           THEN /\ pc' = [pc EXCEPT ![t] = "Compile_returned_in_child"]
                /\ frame' = [frame EXCEPT ![t] = next]
                /\ UNCHANGED <<arg, ret>>
           ELSE Return(t, [op |-> "Compile", result |-> next.ret, reads |-> next.reads])

\* CompileActivity returned r for the first job: the loop around it goes on
\* (332-336, 349-353), or the entry point returns the aggregate.
FinishJob(t, f, r) ==
  LET next == [f EXCEPT !.todo = Tail(@), !.ret = @ /\ r,
                        !.results = Append(@, r)]
  IN IF next.todo # << >>
       THEN /\ pc' = [pc EXCEPT ![t] = "CompileActivity"]
            /\ frame' = [frame EXCEPT ![t] = next]
            /\ UNCHANGED <<arg, ret>>
       ELSE IF next.mode = "device"
         THEN /\ pc' = [pc EXCEPT ![t] = "CompileAppsOnDevice_stamp_lock"]
              /\ frame' = [frame EXCEPT ![t] = next]
              /\ UNCHANGED <<arg, ret>>
         ELSE IF next.saved # << >>
           THEN /\ pc' = [pc EXCEPT ![t] = "Compile_returned_in_child"]
                /\ frame' = [frame EXCEPT ![t] = next]
                /\ UNCHANGED <<arg, ret>>
           ELSE Return(t, [op |-> "Compile", result |-> next.ret, reads |-> next.reads])

FinishActivity(t, r) == FinishJob(t, frame[t], r)

\* CompileActivity returns r before the fork, having read the tables in reads.
FinishChecks(t, r, reads) == FinishJob(t, [frame[t] EXCEPT !.reads = reads], r)

\* ---- Compile, device-wide (363-367) and CompileAppsOnDevice (341-361)

Compile_device(t, params) ==
  /\ Enter(t, "CompileAppsOnDevice_lock", Frame("device", params, << >>))
  /\ UNCHANGED <<ctrlVars, trackerVars, cacheVars, is_it_locked>>

CompileAppsOnDevice_lock(t) ==
  /\ At(t, "CompileAppsOnDevice_lock")
  /\ JobLock(t)
  /\ Goto(t, "CompileAppsOnDevice_reset")
  /\ UNCHANGED <<prefetch_files, disk, last_job_info_, compiles, trackerVars, cacheVars, is_it_locked>>

\* activities_last_compiled_ = 0; unlock; SelectAll and the packages' activities.
CompileAppsOnDevice_reset(t) ==
  /\ At(t, "CompileAppsOnDevice_reset")
  /\ SetJobInfo(t, [last_job_info_ EXCEPT !.activities_last_compiled_ = 0])
  /\ JobUnlock(t)
  /\ LET todo == DeviceJobs(PackageModel_SelectAll)
     IN /\ frame' = [frame EXCEPT ![t].todo = todo]
        /\ pc' = [pc EXCEPT ![t] = IF todo = << >> THEN "CompileAppsOnDevice_stamp_lock"
                                   ELSE "CompileActivity"]
  /\ UNCHANGED <<prefetch_files, disk, compiles, arg, ret, trackerVars, cacheVars, is_it_locked>>

CompileAppsOnDevice_stamp_lock(t) ==
  /\ At(t, "CompileAppsOnDevice_stamp_lock")
  /\ JobLock(t)
  /\ Goto(t, "CompileAppsOnDevice_stamp")
  /\ UNCHANGED <<prefetch_files, disk, last_job_info_, compiles, trackerVars, cacheVars, is_it_locked>>

CompileAppsOnDevice_stamp(t) ==
  /\ At(t, "CompileAppsOnDevice_stamp")
  /\ SetJobInfo(t, [last_job_info_ EXCEPT !.last_run_ns_ = Now])
  /\ JobUnlock(t)
  /\ IF InChild(t)
       THEN Goto(t, "Compile_returned_in_child")
       ELSE Return(t, [op |-> "Compile", result |-> frame[t].ret, reads |-> frame[t].reads])
  /\ UNCHANGED <<prefetch_files, disk, compiles, trackerVars, cacheVars, is_it_locked>>

\* ---- Compile, per package (369-376) and CompilePackage (309-338)

Compile_package(t, package_name, version, params) ==
  /\ ~aborted
  /\ pc[t] = "idle"
  /\ LET package == PackageModel_SelectByNameAndVersion(package_name, version)
         todo == IF package = Nothing THEN << >>
                 ELSE PackageJobs(ValueOf(package), version)
     IN IF todo = << >>
          THEN Return(t, [op |-> "Compile", result |-> package # Nothing, reads |-> {}])
          ELSE Enter(t, "CompileActivity", Frame("package", params, todo))
  /\ UNCHANGED <<ctrlVars, trackerVars, cacheVars, is_it_locked>>

\* ---- Compile, per activity (378-397)

\* An entry point that reports a package that is not in the store as success.
Compile_activity_lenient(t, package_name, activity_name, version, params) ==
  /\ ~aborted
  /\ pc[t] = "idle"
  /\ LET package == PackageModel_SelectByNameAndVersion(package_name, version)
     IN IF package = Nothing
          THEN Return(t, [op |-> "Compile", result |-> TRUE, reads |-> {}])
          ELSE Enter(t, "CompileActivity",
                     Frame("activity", params,
                           <<Job(ValueOf(package).id, package_name, activity_name,
                                 version)>>))
  /\ UNCHANGED <<ctrlVars, trackerVars, cacheVars, is_it_locked>>

Compile_activity(t, package_name, activity_name, version, params) ==
  /\ ~aborted
  /\ pc[t] = "idle"
  /\ LET package == PackageModel_SelectByNameAndVersion(package_name, version)
     IN IF package = Nothing
          THEN Return(t, [op |-> "Compile", result |-> FALSE, reads |-> {}])
          ELSE Enter(t, "CompileActivity",
                     Frame("activity", params,
                           <<Job(ValueOf(package).id, package_name, activity_name,
                                 version)>>))
  /\ UNCHANGED <<ctrlVars, trackerVars, cacheVars, is_it_locked>>

\* ---- CompileActivity (219-306)

\* The path of the job's output file.
JobFilePath(job) ==
  CalculateNewestFilePath(job.package_name, job.activity_name, job.version)

\* The traces CompileActivity collects for the job (239-254); the activity row
\* is there when this is used.
JobTraces(job) ==
  LET activity == ActivityModel_SelectByNameAndPackageId(job.activity_name, job.package_id)
  IN GetPerfettoTraceInfo(
       AppLaunchHistoryModel_SelectActivityHistoryForCompile(ValueOf(activity).id))

\* The checks with an evidence test that also refuses exactly min_traces traces.
CompileActivity_threshold_inclusive(t) ==
  /\ At(t, "CompileActivity")
  /\ LET job == Head(frame[t].todo)
         params == frame[t].params
         activity == ActivityModel_SelectByNameAndPackageId(job.activity_name,
                                                            job.package_id)
     IN IF ~params.recompile /\ JobFilePath(job) \in disk
          THEN FinishChecks(t, TRUE, {})
          ELSE IF activity = Nothing
            THEN FinishChecks(t, FALSE, {"Activity"})
            ELSE IF Len(JobTraces(job)) <= params.min_traces
              THEN FinishChecks(t, FALSE, AllTables)
              ELSE /\ pc' = [pc EXCEPT ![t] = "CompileActivity_lock"]
                   /\ frame' = [frame EXCEPT ![t].attempted = @ + 1,
                                             ![t].reads = AllTables]
                   /\ UNCHANGED <<arg, ret>>
  /\ UNCHANGED <<ctrlVars, trackerVars, cacheVars, is_it_locked>>

\* The checks with the activity looked up before the output file is tested.
CompileActivity_lookup_first(t) ==
  /\ At(t, "CompileActivity")
  /\ LET job == Head(frame[t].todo)
         params == frame[t].params
         activity == ActivityModel_SelectByNameAndPackageId(job.activity_name,
                                                            job.package_id)
     IN IF activity = Nothing
          THEN FinishChecks(t, FALSE, {"Activity"})
          ELSE IF ~params.recompile /\ JobFilePath(job) \in disk
            THEN FinishChecks(t, TRUE, {"Activity"})
            ELSE IF Len(JobTraces(job)) < params.min_traces
              THEN FinishChecks(t, FALSE, AllTables)
              ELSE /\ pc' = [pc EXCEPT ![t] = "CompileActivity_lock"]
                   /\ frame' = [frame EXCEPT ![t].attempted = @ + 1,
                                             ![t].reads = AllTables]
                   /\ UNCHANGED <<arg, ret>>
  /\ UNCHANGED <<ctrlVars, trackerVars, cacheVars, is_it_locked>>

\* 229-260: the checks before any work. The job is skipped with success, fails,
\* or goes on to the LastJobInfo lock.
CompileActivity(t) ==
  /\ At(t, "CompileActivity")
  /\ LET job == Head(frame[t].todo)
         params == frame[t].params
         activity == ActivityModel_SelectByNameAndPackageId(job.activity_name,
                                                            job.package_id)
     IN IF ~params.recompile /\ JobFilePath(job) \in disk
          THEN FinishChecks(t, TRUE, {})
          ELSE IF activity = Nothing
            THEN FinishChecks(t, FALSE, {"Activity"})
            ELSE IF Len(JobTraces(job)) < params.min_traces
              THEN FinishChecks(t, FALSE, AllTables)
              ELSE /\ pc' = [pc EXCEPT ![t] = "CompileActivity_lock"]
                   /\ frame' = [frame EXCEPT ![t].attempted = @ + 1,
                                             ![t].reads = AllTables]
                   /\ UNCHANGED <<arg, ret>>
  /\ UNCHANGED <<ctrlVars, trackerVars, cacheVars, is_it_locked>>

CompileActivity_lock(t) ==
  /\ At(t, "CompileActivity_lock")
  /\ compiles < MaxCompiles
  /\ compiles' = compiles + 1
  /\ JobLock(t)
  /\ Goto(t, "CompileActivity_count")
  /\ UNCHANGED <<prefetch_files, disk, last_job_info_, trackerVars, cacheVars, is_it_locked>>

\* A CompileActivity that counts the activity when the child is forked, not
\* before MkdirWithParents.
CompileActivity_count_at_fork(t) ==
  /\ At(t, "CompileActivity_count")
  /\ JobUnlock(t)
  /\ \/ /\ FinishActivity(t, FALSE)
        /\ UNCHANGED <<aborted, last_job_info_>>
     \/ /\ SetJobInfo(t, [last_job_info_ EXCEPT !.activities_last_compiled_ = @ + 1])
        /\ \E child \in {-1, 1} :
             IF child = -1
               THEN IF InChild(t)
                      THEN /\ ChildEnds(t, Signalled)
                           /\ UNCHANGED aborted
                      ELSE /\ aborted' = TRUE
                           /\ Goto(t, "aborted")
               ELSE /\ Goto(t, "StartViaFork_wait")
                    /\ UNCHANGED aborted
  /\ UNCHANGED <<prefetch_files, disk, compiles, states_, last_created_, last_destroyed_,
                 mutex_, raw_, cacheVars, is_it_locked>>

\* 264-290 and StartViaFork 127-134: the count, MkdirWithParents, then Fork.
\* A failed mkdir fails the job; a failed fork is LOG(FATAL), which ends the
\* process that called Fork.
CompileActivity_count(t) ==
  /\ At(t, "CompileActivity_count")
  /\ SetJobInfo(t, [last_job_info_ EXCEPT !.activities_last_compiled_ = @ + 1])
  /\ JobUnlock(t)
  /\ \/ /\ FinishActivity(t, FALSE)
        /\ UNCHANGED aborted
     \/ \E child \in {-1, 1} :
             IF child = -1
               THEN IF InChild(t)
                      THEN /\ ChildEnds(t, Signalled)
                           /\ UNCHANGED aborted
                      ELSE /\ aborted' = TRUE
                           /\ Goto(t, "aborted")
               ELSE /\ Goto(t, "StartViaFork_wait")
                    /\ UNCHANGED aborted
  /\ UNCHANGED <<prefetch_files, disk, compiles, states_, last_created_, last_destroyed_,
                 mutex_, raw_, cacheVars, is_it_locked>>

\* waitpid returns: the compiler has written its output iff it exited with 0.
StartViaFork_wait(t) ==
  /\ At(t, "StartViaFork_wait")
  /\ \E wstatus \in WaitStatuses :
       /\ frame' = [frame EXCEPT ![t].wstatus = wstatus]
       /\ disk' = IF WIFEXITED(wstatus) /\ WEXITSTATUS(wstatus) = 0
                    THEN disk \cup {JobFilePath(Head(frame[t].todo))}
                    ELSE disk
  /\ pc' = [pc EXCEPT ![t] = "StartViaFork_status"]
  /\ UNCHANGED <<prefetch_files, last_job_info_, last_job_info_mutex_, compiles, arg, ret,
                 trackerVars, cacheVars, is_it_locked>>

\* A parent that takes every status of the child for a normal exit.
StartViaFork_status_unchecked(t) ==
  /\ At(t, "StartViaFork_status")
  /\ LET job == Head(frame[t].todo)
         activity == ActivityModel_SelectByNameAndPackageId(job.activity_name,
                                                            job.package_id)
     IN \/ /\ prefetch_files' = Append(prefetch_files,
                  [activity_id |-> ValueOf(activity).id,
                   file_path |-> JobFilePath(job)])
           /\ FinishActivity(t, TRUE)
        \/ /\ UNCHANGED prefetch_files
           /\ FinishActivity(t, FALSE)
  /\ UNCHANGED <<disk, last_job_info_, last_job_info_mutex_, compiles,
                 trackerVars, cacheVars, is_it_locked>>

\* A CompileActivity that does not look at the result of the insert.
StartViaFork_status_insert_ignored(t) ==
  /\ At(t, "StartViaFork_status")
  /\ LET job == Head(frame[t].todo)
         activity == ActivityModel_SelectByNameAndPackageId(job.activity_name,
                                                            job.package_id)
     IN IF ~WIFEXITED(frame[t].wstatus)
          THEN /\ FinishActivity(t, FALSE)
               /\ UNCHANGED prefetch_files
          ELSE \/ /\ prefetch_files' = Append(prefetch_files,
                       [activity_id |-> ValueOf(activity).id,
                        file_path |-> JobFilePath(job)])
                  /\ FinishActivity(t, TRUE)
               \/ /\ UNCHANGED prefetch_files
                  /\ FinishActivity(t, TRUE)
  /\ UNCHANGED <<disk, last_job_info_, last_job_info_mutex_, compiles,
                 trackerVars, cacheVars, is_it_locked>>

\* StartViaFork 138-144 and CompileActivity 290-305: the status decides, then
\* the PrefetchFile row is inserted (the insert may fail).
StartViaFork_status(t) ==
  /\ At(t, "StartViaFork_status")
  /\ LET job == Head(frame[t].todo)
         activity == ActivityModel_SelectByNameAndPackageId(job.activity_name,
                                                            job.package_id)
     IN IF ~WIFEXITED(frame[t].wstatus)
          THEN /\ FinishActivity(t, FALSE)
               /\ UNCHANGED prefetch_files
          ELSE \/ /\ prefetch_files' = Append(prefetch_files,
                       [activity_id |-> ValueOf(activity).id,
                        file_path |-> JobFilePath(job)])
                  /\ FinishActivity(t, TRUE)
               \/ /\ UNCHANGED prefetch_files
                  /\ FinishActivity(t, FALSE)
  /\ UNCHANGED <<disk, last_job_info_, last_job_info_mutex_, compiles,
                 trackerVars, cacheVars, is_it_locked>>

\* ---- StartViaFork in the child (145-162)

\* Execve returns in the child that t forked and waits for: from here on the
\* steps of t are those of the child, on a copy of t's frame.
Execve_returns(t) ==
  /\ At(t, "StartViaFork_wait")
  /\ pc' = [pc EXCEPT ![t] = "StartViaFork_child"]
  /\ frame' = [frame EXCEPT ![t] =
                 [frame[t] EXCEPT !.saved = <<frame[t]>>,
                                  !.forked_mutex = IF InChild(t) THEN @
                                                   ELSE last_job_info_mutex_]]
  /\ UNCHANGED <<arg, ret, ctrlVars, trackerVars, cacheVars, is_it_locked>>

\* 162 and 290-294: StartViaFork returns false in the child and CompileActivity
\* returns false to the loop or the entry point that called it.
StartViaFork_child(t) ==
  /\ At(t, "StartViaFork_child")
  /\ FinishActivity(t, FALSE)
  /\ UNCHANGED <<ctrlVars, trackerVars, cacheVars, is_it_locked>>

\* The child has returned from the entry point to the caller of the controller;
\* when it ends, the waitpid of its parent (137) returns.
Child_exits(t) ==
  /\ At(t, "Compile_returned_in_child")
  /\ \E wstatus \in WaitStatuses : ChildEnds(t, wstatus)
  /\ UNCHANGED <<ctrlVars, trackerVars, cacheVars, is_it_locked>>

\* ---- the compiler's argument vector (86-125)

\* common::AppendArgs: the arguments, as strings, at the end of argv.
AppendArgs(argv, a0, a1) == argv \o <<a0, a1>>

\* common::AppendArgsRepeatedly without and with a flag: every value, or the
\* flag and the value for every value.
RECURSIVE AppendArgsRepeatedly(_, _)
AppendArgsRepeatedly(argv, values) ==
  IF values = << >> THEN argv
  ELSE AppendArgsRepeatedly(Append(argv, Head(values)), Tail(values))

RECURSIVE AppendArgsRepeatedlyWithFlag(_, _, _)
AppendArgsRepeatedlyWithFlag(argv, a0, values) ==
  IF values = << >> THEN argv
  ELSE AppendArgsRepeatedlyWithFlag(AppendArgs(argv, a0, ToString(Head(values))),
                                    a0, Tail(values))

\* The constructor of CompilerForkParameters (91-100).
CompilerForkParameters(perfetto_traces, output_proto, controller_params) ==
  [input_pbs |-> [i \in 1..Len(perfetto_traces) |-> perfetto_traces[i].filename],
   timestamp_limit_ns |->
     [i \in 1..Len(perfetto_traces) |-> perfetto_traces[i].timestamp_limit_ns],
   output_proto |-> output_proto,
   controller_params |-> controller_params]

\* An argument vector with the flag once, before all the timestamps.
MakeCompilerParams_flag_once(params) ==
  LET controller_params == params.controller_params
      inputs == AppendArgsRepeatedly(<< >>, params.input_pbs)
      limits == AppendArgsRepeatedly(
                  IF params.timestamp_limit_ns = << >> THEN inputs
                  ELSE Append(inputs, "--timestamp_limit_ns"),
                  [i \in 1..Len(params.timestamp_limit_ns) |->
                     ToString(params.timestamp_limit_ns[i])])
      text == IF controller_params.output_text THEN Append(limits, "--output-text")
              ELSE limits
      proto == AppendArgs(text, "--output-proto", params.output_proto)
      cache == IF controller_params.inode_textcache # Nothing
                 THEN AppendArgs(proto, "--inode-textcache",
                                 ValueOf(controller_params.inode_textcache))
                 ELSE proto
  IN IF controller_params.verbose THEN Append(cache, "--verbose") ELSE cache

\* MakeCompilerParams (103-125).
MakeCompilerParams(params) ==
  LET controller_params == params.controller_params
      inputs == AppendArgsRepeatedly(<< >>, params.input_pbs)
      limits == AppendArgsRepeatedlyWithFlag(inputs, "--timestamp_limit_ns",
                                             params.timestamp_limit_ns)
      text == IF controller_params.output_text THEN Append(limits, "--output-text")
              ELSE limits
      proto == AppendArgs(text, "--output-proto", params.output_proto)
      cache == IF controller_params.inode_textcache # Nothing
                 THEN AppendArgs(proto, "--inode-textcache",
                                 ValueOf(controller_params.inode_textcache))
                 ELSE proto
  IN IF controller_params.verbose THEN Append(cache, "--verbose") ELSE cache

\* The histories a call of GetPerfettoTraceInfo may be given: rows of the
\* histories 1 and 2, which have a raw trace, and 5, which has none, with any
\* of the two times set.
HistoryInputs ==
  [id : {1, 2, 5}, report_fully_drawn_ns : {Nothing}, total_time_ns : {Nothing}]
  \cup {[id |-> i, report_fully_drawn_ns |-> Some(100 * i), total_time_ns |-> Nothing] :
          i \in {1, 2, 5}}
  \cup {[id |-> i, report_fully_drawn_ns |-> Nothing, total_time_ns |-> Some(100 * i + 50)] :
          i \in {1, 2, 5}}
  \cup {[id |-> i, report_fully_drawn_ns |-> Some(100 * i),
         total_time_ns |-> Some(100 * i + 50)] : i \in {1, 2, 5}}

HistoryVectors == UNION {[1..n -> HistoryInputs] : n \in 0..MaxHistories}

\* The fields of ControllerParameters that MakeCompilerParams reads.
ForkControllerParameters ==
  [output_text : BOOLEAN, inode_textcache : {Nothing, Some("textcache")},
   verbose : BOOLEAN]

\* The frame of a thread that composes an argument vector for histories.
ArgvFrame(histories, output_proto, controller_params) ==
  [mode |-> "argv", histories |-> histories, output_proto |-> output_proto,
   controller_params |-> controller_params, perfetto_traces |-> << >>,
   compiler_params |-> CompilerForkParameters(<< >>, output_proto, controller_params)]

\* CompileActivity 252-254: the traces of the histories.
Argv_traces(t) ==
  /\ At(t, "GetPerfettoTraceInfo")
  /\ frame' = [frame EXCEPT ![t].perfetto_traces = GetPerfettoTraceInfo(frame[t].histories)]
  /\ pc' = [pc EXCEPT ![t] = "CompilerForkParameters"]
  /\ UNCHANGED <<arg, ret, ctrlVars, trackerVars, cacheVars, is_it_locked>>

\* CompileActivity 280: CompilerForkParameters compiler_params{...}.
Argv_params(t) ==
  /\ At(t, "CompilerForkParameters")
  /\ frame' = [frame EXCEPT ![t].compiler_params =
                 CompilerForkParameters(frame[t].perfetto_traces, frame[t].output_proto,
                                        frame[t].controller_params)]
  /\ pc' = [pc EXCEPT ![t] = "MakeCompilerParams"]
  /\ UNCHANGED <<arg, ret, ctrlVars, trackerVars, cacheVars, is_it_locked>>

\* StartViaFork 147: the argument vector of the child.
Argv_make(t) ==
  /\ At(t, "MakeCompilerParams")
  /\ ret' = [ret EXCEPT ![t] =
               [op |-> "MakeCompilerParams",
                argv_vec |-> MakeCompilerParams(frame[t].compiler_params)]]
  /\ pc' = [pc EXCEPT ![t] = "Execve"]
  /\ UNCHANGED <<arg, frame, ctrlVars, trackerVars, cacheVars, is_it_locked>>

\* ---- Dump (517-542)

MaintenanceDump(t) ==
  /\ Call(t, "MaintenanceDump_try_lock", 0)
  /\ UNCHANGED <<trackerVars, cacheVars, ctrlVars, is_it_locked>>

\* What a copy of last_job_info_ may hold when it is read without the lock
\* while another thread writes it.
RacyJobInfo ==
  [last_run_ns_ : {0, Now}, activities_last_compiled_ : 0..MaxCompiles]

\* try_lock, and the copy of last_job_info_ taken with or without the lock.
MaintenanceDump_try_lock(t) ==
  /\ At(t, "MaintenanceDump_try_lock")
  /\ is_it_locked' = [is_it_locked EXCEPT ![t] = (last_job_info_mutex_ = None)]
  /\ last_job_info_mutex_' = IF last_job_info_mutex_ = None THEN t ELSE last_job_info_mutex_
  /\ pc' = [pc EXCEPT ![t] = "MaintenanceDump_print"]
  /\ \E info \in (IF last_job_info_mutex_ = None THEN {last_job_info_} ELSE RacyJobInfo) :
       frame' = [frame EXCEPT ![t] = [mode |-> "dump", info |-> info]]
  /\ UNCHANGED <<prefetch_files, disk, last_job_info_, compiles, arg, ret,
                 trackerVars, cacheVars>>

\* The lines of the job report; the per-package report follows the unlock.
MaintenanceDumpLines(locked, info) ==
  [lines |-> <<"Background job:">>
             \o (IF ~locked THEN <<"  (possible deadlock)">> ELSE << >>)
             \o <<"  Last run at: %", "  Activities last compiled: %", "",
                  "Package history in database:">>,
   info |-> info]

MaintenanceDump_print(t) ==
  /\ At(t, "MaintenanceDump_print")
  /\ Return(t, [op |-> "MaintenanceDump",
                out |-> MaintenanceDumpLines(is_it_locked[t], frame[t].info),
                locked |-> is_it_locked[t]])
  /\ last_job_info_mutex_' = IF is_it_locked[t] THEN None ELSE last_job_info_mutex_
  /\ is_it_locked' = [is_it_locked EXCEPT ![t] = FALSE]
  /\ UNCHANGED <<prefetch_files, disk, last_job_info_, compiles, trackerVars, cacheVars>>

PackageNames == {"pkg", "absent"}

ActivityNames == {"Main", "Settings", "Gone"}

PackageVersions == {1, 2}

ControllerNext ==
  \/ \E t \in Threads, params \in ControllerParameters : Compile_device(t, params)
  \/ \E t \in Threads : CompileAppsOnDevice_lock(t)
  \/ \E t \in Threads : CompileAppsOnDevice_reset(t)
  \/ \E t \in Threads : CompileAppsOnDevice_stamp_lock(t)
  \/ \E t \in Threads : CompileAppsOnDevice_stamp(t)
  \/ \E t \in Threads, n \in PackageNames, v \in PackageVersions,
        params \in ControllerParameters : Compile_package(t, n, v, params)
  \/ \E t \in Threads, n \in PackageNames, a \in ActivityNames, v \in PackageVersions,
        params \in ControllerParameters : Compile_activity(t, n, a, v, params)
  \/ \E t \in Threads : CompileActivity(t)
  \/ \E t \in Threads : CompileActivity_lock(t)
  \/ \E t \in Threads : CompileActivity_count(t)
  \/ \E t \in Threads : StartViaFork_wait(t)
  \/ \E t \in Threads : StartViaFork_status(t)

\* The thread of the router that runs the maintenance jobs.
Worker == "t1"

\* The controller as the service uses it: one worker runs the compile entry
\* points, one call after the other, and any thread may take a dump.
JobNext ==
  \/ \E params \in ControllerParameters : Compile_device(Worker, params)
  \/ CompileAppsOnDevice_lock(Worker)
  \/ CompileAppsOnDevice_reset(Worker)
  \/ CompileAppsOnDevice_stamp_lock(Worker)
  \/ CompileAppsOnDevice_stamp(Worker)
  \/ \E n \in PackageNames, v \in PackageVersions, params \in ControllerParameters :
        Compile_package(Worker, n, v, params)
  \/ \E n \in PackageNames, a \in ActivityNames, v \in PackageVersions,
        params \in ControllerParameters : Compile_activity(Worker, n, a, v, params)
  \/ CompileActivity(Worker)
  \/ CompileActivity_lock(Worker)
  \/ CompileActivity_count(Worker)
  \/ StartViaFork_wait(Worker)
  \/ StartViaFork_status(Worker)
  \/ \E t \in Threads : MaintenanceDump(t)
  \/ \E t \in Threads : MaintenanceDump_try_lock(t)
  \/ \E t \in Threads : MaintenanceDump_print(t)

\* ---- EventManager (manager/event_manager.h): the callbacks of a request

RequestIds == 1..MaxRequests

\* The request with this id is being handled by some thread.
InFlight(request_id) ==
  \E u \in Threads : frame[u].mode = "request" /\ frame[u].request_id = request_id

\* An event arrives with a request id that no request in flight has: its
\* handling starts on t, the caller's thread or a worker of the router.
\* callbacks is what the sink has been called with for the request.
On_Event(t, event, request_id) ==
  /\ ~InFlight(request_id)
  /\ Enter(t, "Router_handle",
           [mode |-> "request", event |-> event, request_id |-> request_id,
            callbacks |-> << >>])
  /\ UNCHANGED <<ctrlVars, trackerVars, cacheVars, is_it_locked>>

OnAppLaunchEvent(t, request_id) == On_Event(t, "AppLaunchEvent", request_id)

OnJobScheduledEvent(t, request_id) == On_Event(t, "JobScheduledEvent", request_id)

\* A router that reports progress whether or not the request is complete.
Router_OnProgress_any_time(t) ==
  /\ ~aborted
  /\ pc[t] \in {"Router_handle", "Router_completed"}
  /\ Len(frame[t].callbacks) <= MaxProgress
  /\ frame' = [frame EXCEPT ![t].callbacks = Append(@, "OnProgress")]
  /\ UNCHANGED <<pc, arg, ret, ctrlVars, trackerVars, cacheVars, is_it_locked>>

\* The handler reports progress: callbacks->OnProgress(request_id, result).
Router_OnProgress(t) ==
  /\ At(t, "Router_handle")
  /\ Len(frame[t].callbacks) < MaxProgress
  /\ frame' = [frame EXCEPT ![t].callbacks = Append(@, "OnProgress")]
  /\ UNCHANGED <<pc, arg, ret, ctrlVars, trackerVars, cacheVars, is_it_locked>>

\* The handler ends the request, with success or with an error:
\* callbacks->OnComplete(request_id, result).
Router_OnComplete(t) ==
  /\ At(t, "Router_handle")
  /\ frame' = [frame EXCEPT ![t].callbacks = Append(@, "OnComplete")]
  /\ pc' = [pc EXCEPT ![t] = "Router_completed"]
  /\ UNCHANGED <<arg, ret, ctrlVars, trackerVars, cacheVars, is_it_locked>>

\* The handler is done with the request.
Router_done(t) ==
  /\ At(t, "Router_completed")
  /\ Return(t, [op |-> "On_Event", request_id |-> frame[t].request_id,
                callbacks |-> frame[t].callbacks])
  /\ UNCHANGED <<ctrlVars, trackerVars, cacheVars, is_it_locked>>

RouterNext ==
  \/ \E t \in Threads, request_id \in RequestIds : OnAppLaunchEvent(t, request_id)
  \/ \E t \in Threads, request_id \in RequestIds : OnJobScheduledEvent(t, request_id)
  \/ \E t \in Threads : Router_OnProgress(t)
  \/ \E t \in Threads : Router_OnComplete(t)
  \/ \E t \in Threads : Router_done(t)

\* The same, with children whose Execve returns.
ChildNext ==
  \/ JobNext
  \/ Execve_returns(Worker)
  \/ StartViaFork_child(Worker)
  \/ Child_exits(Worker)

\* The composition of the compiler's argument vector by the worker.
ArgvNext ==
  \/ Argv_traces(Worker)
  \/ Argv_params(Worker)
  \/ Argv_make(Worker)

\* The parameters of the background job.
DefaultParameters == [recompile |-> FALSE, min_traces |-> kMinTracesForCompilation]

\* The two dump surfaces, next to a device-wide pass of the background job
\* and to Create on the tracker, the operations that hold the two mutexes.
DumpNext ==
  \/ \E t \in Threads : Dump(t)
  \/ \E t \in Threads : Dump_try_lock(t)
  \/ \E t \in Threads : Dump_print(t)
  \/ \E t \in Threads : MaintenanceDump(t)
  \/ \E t \in Threads : MaintenanceDump_try_lock(t)
  \/ \E t \in Threads : MaintenanceDump_print(t)
  \/ \E t \in Threads : Create_raw(t)
  \/ \E t \in Threads : Create_lock(t)
  \/ \E t \in Threads : Create_body(t)
  \/ \E t \in Threads : Compile_device(t, DefaultParameters)
  \/ \E t \in Threads : CompileAppsOnDevice_lock(t)
  \/ \E t \in Threads : CompileAppsOnDevice_reset(t)
  \/ \E t \in Threads : CompileActivity(t)
  \/ \E t \in Threads : CompileActivity_lock(t)
  \/ \E t \in Threads : CompileActivity_count(t)
  \/ \E t \in Threads : StartViaFork_wait(t)
  \/ \E t \in Threads : StartViaFork_status(t)
  \/ \E t \in Threads : CompileAppsOnDevice_stamp_lock(t)
  \/ \E t \in Threads : CompileAppsOnDevice_stamp(t)

\* ------------------------------------------------------------ specifications

\* The tracker under calls of the service threads.
InitTracker == TrackerInit /\ ThreadInit /\ CacheQuiet /\ ControllerQuiet

SpecTracker == InitTracker /\ [][TrackerNext]_vars

\* The version cache under calls of the service threads.
InitCache == TrackerInit /\ ThreadInit /\ CacheInit /\ ControllerQuiet

SpecCache == InitCache /\ [][CacheNext]_vars

\* The maintenance controller under calls of the service threads.
InitController == TrackerInit /\ ThreadInit /\ CacheQuiet /\ ControllerInit

SpecController == InitController /\ [][ControllerNext]_vars

\* The maintenance controller under the one worker of the router.
SpecJob == InitController /\ [][JobNext]_vars

\* The worker composes the argument vector for any histories and parameters.
InitArgv ==
  /\ TrackerInit
  /\ CacheQuiet
  /\ ControllerQuiet
  /\ pc = [t \in Threads |-> IF t = Worker THEN "GetPerfettoTraceInfo" ELSE "idle"]
  /\ arg = [t \in Threads |-> 0]
  /\ \E histories \in HistoryVectors, controller_params \in ForkControllerParameters :
       frame = [t \in Threads |->
                  IF t = Worker THEN ArgvFrame(histories, "compiled.pb", controller_params)
                  ELSE NoFrame]
  /\ is_it_locked = [t \in Threads |-> FALSE]
  /\ ret = [t \in Threads |-> NoRet]

SpecArgv == InitArgv /\ [][ArgvNext]_vars

\* The event router under events of the service threads.
SpecRouter == InitController /\ [][RouterNext]_vars

\* The same, with children whose Execve returns.
SpecChild == InitController /\ [][ChildNext]_vars

\* The dump surfaces under a bug report taken while the service works: a
\* thread that is dumping keeps running; any other thread may stall anywhere.
DumpFairness ==
  \A t \in Threads :
    /\ WF_vars(Dump_try_lock(t))
    /\ WF_vars(Dump_print(t))
    /\ WF_vars(MaintenanceDump_try_lock(t))
    /\ WF_vars(MaintenanceDump_print(t))

SpecDump == InitController /\ [][DumpNext]_vars /\ DumpFairness

\* =================================================================== claims

\* Thread t takes a step of its own.
Steps(t) == pc'[t] # pc[t] \/ frame'[t] # frame[t]

\* ---- C1
\* C1: when the compiler child exits normally with a non-zero status, the
\* per-activity compile inserts no PrefetchFile row and, called through the
\* per-activity entry point, returns failure.
C1_NonZeroExitFails ==
  [][\A t \in Threads :
       (/\ pc[t] = "StartViaFork_status"
        /\ Steps(t)
        /\ WIFEXITED(frame[t].wstatus)
        /\ WEXITSTATUS(frame[t].wstatus) # 0)
       => /\ prefetch_files' = prefetch_files
          /\ (pc'[t] = "idle" => ~ret'[t].result)]_vars

\* ---- C8
DumpLabels ==
  {"Dump_try_lock", "Dump_print", "MaintenanceDump_try_lock", "MaintenanceDump_print"}

\* A step of a dumping thread leaves a mutex held by another thread alone.
DumpStepKeepsForeignLocks ==
  \A t \in Threads :
    (pc[t] \in DumpLabels /\ Steps(t))
    => /\ (mutex_ \notin {None, t} => mutex_' = mutex_)
       /\ (last_job_info_mutex_ \notin {None, t}
             => last_job_info_mutex_' = last_job_info_mutex_)

\* C8: a dump never waits for its mutex: a thread in either Dump gets to its
\* return whatever the other threads do (unless the process dies), even when
\* another thread holds the mutex for ever; on return it holds neither mutex,
\* and no step of it unlocks a mutex held by another thread.
C8_DumpNeverWaits ==
  /\ \A t \in Threads : (pc[t] \in DumpLabels) ~> (pc[t] = "idle" \/ aborted)
  /\ [](\A t \in Threads :
          pc[t] = "idle" => mutex_ # t /\ last_job_info_mutex_ # t)
  /\ [][DumpStepKeepsForeignLocks]_vars

\* The tracker Dump has returned without the lock while the other thread still
\* holds the tracker mutex.
C8_Witness ==
  \E t \in Threads, u \in Threads :
    /\ t # u
    /\ pc[t] = "idle"
    /\ ret[t].op = "Dump"
    /\ ~ret[t].locked
    /\ mutex_ = u

\* ---- C9
kPossibleDeadlock == "  (possible deadlock)"

Annotated(out) == \E i \in DOMAIN out.lines : out.lines[i] = kPossibleDeadlock

\* C9: the output of either Dump carries the possible-deadlock line exactly
\* when its try_lock failed.
C9_FailedTryLockAnnotated ==
  \A t \in Threads :
    ret[t].op \in {"Dump", "MaintenanceDump"}
    => (Annotated(ret[t].out) <=> ~ret[t].locked)

\* ---- C2
LegalEdge(a, b) ==
  \/ a = "kUncreated" /\ b = "kCreated"
  \/ a = "kCreated" /\ b = "kStartedTracing"
  \/ a = "kStartedTracing" /\ b = "kReadTracing"
  \/ a = "kReadTracing" /\ b = "kDestroyed"
  \/ a \in {"kCreated", "kStartedTracing", "kReadTracing"} /\ b = "kTimedOutDestroyed"

KindStepLegal ==
  \A h \in Handles :
    /\ (Tracked(h) /\ h \in DOMAIN states_' /\ states_'[h].kind_ # states_[h].kind_)
         => LegalEdge(states_[h].kind_, states_'[h].kind_)
    /\ (~Tracked(h) /\ h \in DOMAIN states_')
         => LegalEdge("kUncreated", states_'[h].kind_)

\* C2: for any sequence of Create, StartTracing, ReadTrace and Destroy, every
\* change of a handle's kind follows a legal edge Uncreated -> Created ->
\* StartedTracing -> ReadTracing -> Destroyed (or Created/StartedTracing/
\* ReadTracing -> TimedOutDestroyed); no other kind transition occurs.
C2_KindTransitionsLegal == [][KindStepLegal]_vars

\* ---- C3
\* C3: when Create's critical section runs with an engine handle that is not
\* last_created + 1 the tracker aborts and the tracked map is unchanged; when
\* it is, the handle is tracked with kind Created and last_created is the handle.
C3_CreateChecksHandle ==
  [][\A t \in Threads :
       (At(t, "Create_body") /\ Steps(t)) =>
         IF arg[t] # last_created_ + 1
           THEN aborted' /\ states_' = states_
           ELSE /\ ~aborted'
                /\ arg[t] \in DOMAIN states_'
                /\ states_'[arg[t]].kind_ = "kCreated"
                /\ last_created_' = arg[t]
                /\ \A h \in DOMAIN states_ : h \in DOMAIN states_' /\ states_'[h] = states_[h]]_vars

\* The engine returned a handle beyond last_created + 1 and the tracker aborted.
C3_Witness ==
  /\ aborted
  /\ \E t \in Threads :
       pc[t] = "aborted" /\ arg[t] > last_created_ /\ ~Tracked(arg[t])

\* ---- C4
\* C4: for every valid handle h outside the tracked map, the classifier of
\* GetOrInferHandleDescription(h) says Destroyed iff h <= last_destroyed,
\* Uncreated iff h > last_created, never both, and the call warns "bad state
\* detection" exactly when last_destroyed < h <= last_created.
C4_InferClassifiesUntracked ==
  [][\A t \in Threads :
       (At(t, "GetOrInfer_body") /\ Steps(t) /\ ~Tracked(arg[t])
          /\ arg[t] # kInvalidHandle) =>
         /\ IsDestroyed(arg[t]) <=> arg[t] <= last_destroyed_
         /\ IsUncreated(arg[t]) <=> arg[t] > last_created_
         /\ ~(IsDestroyed(arg[t]) /\ IsUncreated(arg[t]))
         /\ ret'[t].warned <=> (last_destroyed_ < arg[t] /\ arg[t] <= last_created_)]_vars

\* ---- C5
\* C5: Destroy of an untracked handle changes neither the tracked map nor
\* last_created nor last_destroyed and does not reach the engine; the engine
\* receives Destroy at most once per handle.
C5_DestroyUntrackedNoop ==
  /\ [][\A t \in Threads :
          (At(t, "Destroy_update") /\ Steps(t) /\ ~Tracked(arg[t])) =>
            /\ UNCHANGED <<states_, last_created_, last_destroyed_, raw_>>
            /\ ret'[t] = [op |-> "Destroy", tracked |-> FALSE]]_vars
  /\ [][\A h \in Handles : raw_'.destroys[h] <= 1]_vars

\* A Destroy of an untracked handle has returned, after the engine has
\* destroyed the one handle issued so far.
C5_Witness ==
  \E t \in Threads :
    /\ ret[t].op = "Destroy"
    /\ ~ret[t].tracked
    /\ last_created_ = 1
    /\ raw_.destroys[1] = 1

\* ---- C6
\* C6: StartTracing and ReadTrace of an untracked handle do not reach the engine
\* and leave the tracked map, last_created and last_destroyed as they are;
\* ReadTrace returns the empty buffer.
C6_UntrackedUseNeutral ==
  [][\A t \in Threads :
       ((At(t, "StartTracing_body") \/ At(t, "ReadTrace_body"))
          /\ Steps(t) /\ ~Tracked(arg[t])) =>
         /\ UNCHANGED <<states_, last_created_, last_destroyed_, raw_>>
         /\ pc[t] = "ReadTrace_body" => ret'[t].buffer = EmptyTraceBuffer]_vars

\* ReadTrace of an untracked handle has returned the empty buffer after a
\* handle was destroyed, and a StartTracing of an untracked handle has returned.
C6_Witness ==
  \E t, u \in Threads :
    /\ ret[t].op = "ReadTrace"
    /\ ret[t].buffer = EmptyTraceBuffer
    /\ last_destroyed_ = 1
    /\ ret[u].op = "StartTracing"
    /\ ~ret[u].tracked

\* ---- C7
InCriticalSection(t) ==
  pc[t] \in {"Create_body", "StartTracing_body", "ReadTrace_body", "Destroy_update",
             "Destroy_erase", "GetOrInfer_body"}

\* C7: operations on the tracked map are serialized by the tracker mutex; once
\* the engine has received Destroy(h) the entry of h is gone (or the very
\* Destroy is about to erase it under the mutex), and the engine never receives
\* StartTracing(h) or ReadTrace(h) after Destroy(h).
C7_DestroySerialized ==
  /\ \A t, u \in Threads : (t # u /\ InCriticalSection(t)) => ~InCriticalSection(u)
  /\ \A t \in Threads : InCriticalSection(t) => mutex_ = t
  /\ \A h \in Handles : raw_.late[h] = 0
  /\ \A h \in Handles :
       raw_.destroys[h] > 0 =>
         \/ ~Tracked(h)
         \/ \E t \in Threads : pc[t] = "Destroy_erase" /\ arg[t] = h

\* Destroy(h) is about to erase h while a ReadTrace(h) waits for the mutex.
C7_Witness ==
  \E t, u \in Threads :
    /\ pc[t] = "Destroy_erase"
    /\ pc[u] = "ReadTrace_lock"
    /\ arg[u] = arg[t]

\* ---- C10
\* C10: GetOrQueryPackageVersion consults the remote only for a name absent from
\* the map; a cached name is answered from the map with no remote query; a miss
\* whose query succeeded with v writes v back, and the entry stays as it is
\* until the next Update, so every later query before it returns v unasked.
C10_RemoteOnlyOnMiss ==
  [][/\ \A t \in Threads :
          (At(t, "GetOrQuery_find") /\ Steps(t) /\ arg[t] \in DOMAIN version_map_) =>
            /\ remote_queries' = remote_queries
            /\ ret'[t].version = version_map_[arg[t]]
            /\ ~ret'[t].queried
     /\ \A t \in Threads :
          (At(t, "GetOrQuery_query") /\ Steps(t) /\ ret'[t].version # kUnknownVersion) =>
            /\ arg[t] \in DOMAIN version_map_'
            /\ version_map_'[arg[t]] = ret'[t].version
     /\ remote_queries' # remote_queries =>
          \E t \in Threads :
            At(t, "GetOrQuery_query") /\ Steps(t) /\ arg[t] \notin DOMAIN version_map_
     /\ \A n \in DOMAIN version_map_ :
          \/ n \in DOMAIN version_map_' /\ version_map_'[n] = version_map_[n]
          \/ \E t \in Threads : At(t, "Update_body") /\ Steps(t)]_vars

\* One thread missed on a name and got v from the remote; the other then asked
\* for the same name and got v from the map, though the remote has moved on.
C10_Witness ==
  \E t, u \in Threads :
    /\ ret[t].op = "GetOrQuery" /\ ret[t].queried /\ ret[t].version # kUnknownVersion
    /\ ret[u].op = "GetOrQuery" /\ ~ret[u].queried
    /\ ret[u].name = ret[t].name /\ ret[u].version = ret[t].version
    /\ remote_queries = 1
    /\ ret[t].name \in DOMAIN version_map_
    /\ version_map_[ret[t].name] = ret[t].version
    /\ remote[ret[t].name] # ret[t].version

\* ---- C11
\* C11: when GetOrQueryPackageVersion misses the map and the remote query
\* yields nothing (always so for a package that is not installed), it returns
\* the unknown sentinel -1, leaves the map as it was with no entry for the
\* name, and a later lookup of the name misses again and goes to the remote.
C11_FailedQueryLeavesMap ==
  /\ [][\A t \in Threads :
          (At(t, "GetOrQuery_query") /\ Steps(t)) =>
            /\ remote[arg[t]] = NotInstalled => ret'[t].version = kUnknownVersion
            /\ ret'[t].version = kUnknownVersion =>
                 /\ version_map_' = version_map_
                 /\ arg[t] \notin DOMAIN version_map_']_vars
  /\ [][\A t \in Threads :
          (At(t, "GetOrQuery_find") /\ Steps(t) /\ arg[t] \notin DOMAIN version_map_)
            => pc'[t] = "GetOrQuery_query"]_vars

\* Two lookups of one name have both asked the remote and both got nothing.
C11_Witness ==
  \E t, u \in Threads :
    /\ t # u
    /\ ret[t].op = "GetOrQuery" /\ ret[t].queried /\ ret[t].version = kUnknownVersion
    /\ ret[u].op = "GetOrQuery" /\ ret[u].queried /\ ret[u].version = kUnknownVersion
    /\ ret[u].name = ret[t].name
    /\ ret[t].name \notin DOMAIN version_map_
    /\ remote_queries = 2

\* ---- C12
\* C12: no step other than the refresh of Update removes an entry of the
\* version map or changes its version, whatever GetOrQueryPackageVersion calls
\* run and however the remote changes; the refresh of Update makes the map the
\* remote's snapshot of that moment.
C12_MonotoneBetweenUpdates ==
  [][/\ (\A t \in Threads : ~(At(t, "Update_body") /\ Steps(t))) =>
          \A n \in DOMAIN version_map_ :
            n \in DOMAIN version_map_' /\ version_map_'[n] = version_map_[n]
     /\ \A t \in Threads :
          (At(t, "Update_body") /\ Steps(t)) =>
            version_map_' = GetPackageVersionMap(remote)]_vars

\* After an Update the remote has changed, and a lookup has returned the
\* version the map still holds.
C12_Witness ==
  \E t, u \in Threads :
    /\ ret[u].op = "Update"
    /\ ret[t].op = "GetOrQuery" /\ ~ret[t].queried
    /\ ret[t].name \in DOMAIN version_map_
    /\ version_map_[ret[t].name] = ret[t].version
    /\ remote[ret[t].name] \notin {ret[t].version, NotInstalled}
    /\ remote_queries = 0

\* ---- C13
\* A thread is at a statement that reads or writes version_map_.
AccessesVersionMap(t) ==
  pc[t] \in {"Update_body", "Size_read", "GetOrQuery_find", "GetOrQuery_query"}

\* C13: the operations of the version cache are serialized by its mutex: no
\* two threads are at statements that read or write the version map at the
\* same time, and a thread that asks the remote after a miss holds the mutex.
C13_CacheSerialized ==
  /\ \A t, u \in Threads :
       t # u => ~(AccessesVersionMap(t) /\ AccessesVersionMap(u))
  /\ \A t \in Threads : pc[t] = "GetOrQuery_query" => version_mutex_ = t

\* ---- C14
\* C14: a device-wide pass sets activities_last_compiled_ to 0 when it starts,
\* and when it ends the count is the number of activities of the pass that got
\* past the checks (output file, activity row, evidence) and were attempted,
\* whatever became of the attempt; an activity that is skipped or refused by
\* the checks leaves the count alone.
C14_CountOfPass ==
  [][\A t \in Threads :
       /\ (At(t, "CompileAppsOnDevice_reset") /\ Steps(t)) =>
            last_job_info_'.activities_last_compiled_ = 0
       /\ (At(t, "CompileActivity") /\ Steps(t)) =>
            last_job_info_' = last_job_info_
       /\ (At(t, "CompileAppsOnDevice_stamp") /\ Steps(t)) =>
            last_job_info_'.activities_last_compiled_ = frame[t].attempted]_vars

\* A pass is about to end that attempted one activity (and failed on it or on
\* another one), after an earlier call had counted an activity.
C14_Witness ==
  /\ pc[Worker] = "CompileAppsOnDevice_stamp"
  /\ frame[Worker].attempted = 1
  /\ ~frame[Worker].ret
  /\ last_job_info_.activities_last_compiled_ = 1
  /\ compiles = 2

\* ---- C15
\* The first job of t's call ends in this step with the result r: the call
\* returns or goes on to its next job, and r is what a call that has not
\* failed before hands on.
JobEndsWith(t, r) ==
  /\ pc'[t] = "idle" \/ frame'[t].todo = Tail(frame[t].todo)
  /\ frame[t].ret => IF pc'[t] = "idle" THEN ret'[t].result = r ELSE frame'[t].ret = r

\* The job ends in failure with no child forked, no count and no PrefetchFile row.
JobRefused(t) ==
  /\ JobEndsWith(t, FALSE)
  /\ UNCHANGED <<last_job_info_, prefetch_files, compiles, disk>>

\* t is at the checks of CompileActivity for an activity that is in the store.
AtChecksOfKnownActivity(t) ==
  /\ At(t, "CompileActivity")
  /\ Steps(t)
  /\ ActivityModel_SelectByNameAndPackageId(Head(frame[t].todo).activity_name,
                                            Head(frame[t].todo).package_id) # Nothing

\* The output file of t's job is on disk and recompile is off.
OutputShortCircuits(t) ==
  ~frame[t].params.recompile /\ JobFilePath(Head(frame[t].todo)) \in disk

\* C15 as claimed: with fewer traces than min_traces the per-activity compile
\* fails without fork, count or PrefetchFile row; with at least min_traces
\* (always so for min_traces = 0) the compile is attempted.
C15_ThresholdDecides ==
  [][\A t \in Threads :
       AtChecksOfKnownActivity(t) =>
         IF Len(JobTraces(Head(frame[t].todo))) < frame[t].params.min_traces
           THEN JobRefused(t)
           ELSE pc'[t] = "CompileActivity_lock"]_vars

\* C15 amended: the same, for a compile that the output file on disk does not
\* short-circuit (recompile is on, or the file is not there).
C15_ThresholdDecidesUnlessShortCircuit ==
  [][\A t \in Threads :
       (AtChecksOfKnownActivity(t) /\ ~OutputShortCircuits(t)) =>
         IF Len(JobTraces(Head(frame[t].todo))) < frame[t].params.min_traces
           THEN JobRefused(t)
           ELSE pc'[t] = "CompileActivity_lock"]_vars

\* A pass with min_traces = 3 has attempted and compiled Main (three traces)
\* and has refused Settings (two traces), whose file is not on disk.
C15_Witness ==
  \E t \in Threads :
    /\ pc[t] = "CompileAppsOnDevice_stamp_lock"
    /\ frame[t].params.min_traces = kMinTracesForCompilation
    /\ frame[t].attempted = 1
    /\ ~frame[t].ret
    /\ Len(prefetch_files) = 1
    /\ compiles = 1
    /\ CalculateNewestFilePath("pkg", "Settings", 1) \notin disk

\* ---- C16
\* The tables the job that ends in this step of t has read.
JobReads(t) == IF pc'[t] = "idle" THEN ret'[t].reads ELSE frame'[t].reads

\* C16: with recompile = false and the derived output file on disk, the
\* per-activity compile returns success without work: it reads no activity,
\* history or raw-trace row, forks no child, does not increment
\* activities_last_compiled and inserts no PrefetchFile row.
C16_ExistingOutputSkipsWork ==
  [][\A t \in Threads :
       (At(t, "CompileActivity") /\ Steps(t) /\ OutputShortCircuits(t)) =>
         /\ JobEndsWith(t, TRUE)
         /\ JobReads(t) = {}
         /\ UNCHANGED <<last_job_info_, prefetch_files, compiles, disk>>]_vars

\* Main was compiled by an earlier call; a later per-activity call of the
\* worker with recompile = false has returned success having read no table,
\* and there is still one attempt, one count and one row.
C16_Witness ==
  /\ pc[Worker] = "idle"
  /\ ret[Worker] = [op |-> "Compile", result |-> TRUE, reads |-> {}]
  /\ CalculateNewestFilePath("pkg", "Main", 1) \in disk
  /\ Len(prefetch_files) = 1
  /\ compiles = 1
  /\ last_job_info_.activities_last_compiled_ = 1

\* ---- C17
\* The per-activity entry point is called for a (package, version) pair that
\* is not in the store, and the result of the call is success.
AbsentPackageSucceeds(t) ==
  /\ pc[t] = "idle"
  /\ pc'[t] = "idle"
  /\ ret'[t].op = "Compile"
  /\ ret'[t].result
  /\ \E package_name \in PackageNames, activity_name \in ActivityNames,
        version \in PackageVersions, params \in ControllerParameters :
       /\ PackageModel_SelectByNameAndVersion(package_name, version) = Nothing
       /\ Compile_activity(t, package_name, activity_name, version, params)

\* t is at the checks of CompileActivity, called through the per-activity
\* entry point, for an activity that is not in the store.
AtChecksOfAbsentActivity(t) ==
  /\ At(t, "CompileActivity")
  /\ Steps(t)
  /\ frame[t].mode = "activity"
  /\ ActivityModel_SelectByNameAndPackageId(Head(frame[t].todo).activity_name,
                                            Head(frame[t].todo).package_id) = Nothing

\* C17 as claimed: the per-activity entry point returns failure whenever the
\* (package, version) pair or the activity is not in the store, for every
\* setting of the parameters.
C17_AbsentRowFails ==
  [][\A t \in Threads :
       /\ ~AbsentPackageSucceeds(t)
       /\ AtChecksOfAbsentActivity(t) =>
            (pc'[t] = "idle" /\ ~ret'[t].result)]_vars

\* C17 amended: the same, except that an absent activity whose output file is
\* on disk is reported as success when recompile is off.
C17_AbsentRowFailsUnlessShortCircuit ==
  [][\A t \in Threads :
       /\ ~AbsentPackageSucceeds(t)
       /\ AtChecksOfAbsentActivity(t) =>
            /\ pc'[t] = "idle"
            /\ ret'[t].result = OutputShortCircuits(t)]_vars

\* A per-activity call for an activity that is not in the store has failed at
\* the activity lookup, although the activity's output file is on disk.
C17_Witness ==
  \E t \in Threads :
    /\ pc[t] = "idle"
    /\ ret[t] = [op |-> "Compile", result |-> FALSE, reads |-> {"Activity"}]
    /\ CalculateNewestFilePath("pkg", "Gone", 1) \in disk

\* ---- C18
\* The activities in the store under the package rows ps.
ActivitiesUnder(ps) ==
  {i \in 1..Len(ActivityRows) :
     \E j \in 1..Len(ps) : ps[j].id = ActivityRows[i].package_id}

\* Every CompileActivity recorded in rs returned success.
AllSucceeded(rs) == \A i \in 1..Len(rs) : rs[i]

\* t runs a per-package or device-wide call and one of its CompileActivity
\* calls returns in this step.
LoopJobEnds(t) ==
  /\ frame[t].mode \in {"package", "device"}
  /\ pc[t] \in {"CompileActivity", "CompileActivity_count", "StartViaFork_status"}
  /\ Steps(t)
  /\ pc'[t] \notin {"CompileActivity_lock", "CompileActivity_count",
                    "StartViaFork_wait", "StartViaFork_status", "aborted"}

\* C18: the per-package and device-wide loops run the per-activity algorithm on
\* every activity of every selected package whatever failed before, and the
\* call returns success iff every CompileActivity returned success.
C18_LoopsVisitAllAndAggregate ==
  [][\A t \in Threads :
       /\ (LoopJobEnds(t) /\ Len(frame[t].todo) > 1) =>
            /\ pc'[t] = "CompileActivity"
            /\ frame'[t].todo = Tail(frame[t].todo)
            /\ frame'[t].ret = AllSucceeded(frame'[t].results)
       /\ (LoopJobEnds(t) /\ Len(frame[t].todo) = 1 /\ frame[t].mode = "package") =>
            /\ pc'[t] = "idle"
            /\ Len(frame[t].results) + 1 =
                 Cardinality(ActivitiesUnder(<<[id |-> Head(frame[t].todo).package_id]>>))
            /\ ret'[t].result => (frame[t].ret /\ AllSucceeded(frame[t].results))
            /\ ~frame[t].ret => ~ret'[t].result
       /\ (At(t, "CompileAppsOnDevice_stamp") /\ Steps(t)) =>
            /\ Len(frame[t].results) = Cardinality(ActivitiesUnder(PackageRows))
            /\ ret'[t].result = AllSucceeded(frame[t].results)]_vars

\* A device-wide pass is about to end whose first activity failed and whose
\* second activity was compiled all the same.
C18_Witness ==
  \E t \in Threads :
    /\ pc[t] = "CompileAppsOnDevice_stamp"
    /\ frame[t].results = <<FALSE, TRUE>>
    /\ Len(prefetch_files) = 1
    /\ prefetch_files[1].file_path = CalculateNewestFilePath("pkg", "Settings", 1)

\* ---- C20
\* C20: when the compiler child is killed by a signal, the per-activity compile
\* returns failure, no PrefetchFile row is inserted, the increment of
\* activities_last_compiled made before the fork is kept, and the pass goes on
\* to the next activity.
C20_SignalledChildFails ==
  [][\A t \in Threads :
       (At(t, "StartViaFork_status") /\ Steps(t) /\ ~WIFEXITED(frame[t].wstatus)) =>
         /\ JobEndsWith(t, FALSE)
         /\ prefetch_files' = prefetch_files
         /\ last_job_info_' = last_job_info_
         /\ last_job_info_.activities_last_compiled_ >= 1
         /\ frame[t].mode \in {"package", "device"} /\ Len(frame[t].todo) > 1 =>
              /\ pc'[t] = "CompileActivity"
              /\ frame'[t].todo = Tail(frame[t].todo)]_vars

\* The child of the first activity of a device-wide pass was killed by a
\* signal: the activity has failed, it is counted, there is no row and no
\* output file, and the pass is at its second activity.
C20_Witness ==
  \E t \in Threads :
    /\ pc[t] = "CompileActivity"
    /\ frame[t].mode = "device"
    /\ frame[t].wstatus \in WaitStatuses
    /\ ~WIFEXITED(frame[t].wstatus)
    /\ frame[t].results = <<FALSE>>
    /\ Len(frame[t].todo) = 1
    /\ last_job_info_.activities_last_compiled_ = 1
    /\ prefetch_files = << >>

\* ---- C19
\* t is in the controller, in a forked child whose Execve has returned.
InReturnedChild(t) == frame[t].mode \in {"device", "package", "activity"} /\ InChild(t)

\* C19: a forked child whose Execve has returned does not continue on with the
\* controller's work: it is nowhere in the per-activity algorithm or in the
\* loops around it but at the return of Execve, where it ends.
C19_ChildDoesNotContinue ==
  \A t \in Threads : InReturnedChild(t) => pc[t] = "StartViaFork_child"

\* ---- C21
\* The history has a raw trace in the store, and the path of that trace.
HasRawTrace(history) ==
  \E i \in 1..Len(RawTraceRows) : RawTraceRows[i].history_id = history.id

RawTracePath(history) ==
  RawTraceRows[CHOOSE i \in 1..Len(RawTraceRows) :
                 RawTraceRows[i].history_id = history.id].file_path

\* The limit the spec gives a history: report_fully_drawn_ns when set, else
\* total_time_ns when set, else the largest 64-bit unsigned value.
EffectiveLimit(history) ==
  CASE history.report_fully_drawn_ns # Nothing -> ValueOf(history.report_fully_drawn_ns)
    [] history.report_fully_drawn_ns = Nothing /\ history.total_time_ns # Nothing ->
         ValueOf(history.total_time_ns)
    [] OTHER -> kUint64Max

\* The options that follow the inputs and their limits.
ArgvOptions(output_proto, controller_params) ==
  (IF controller_params.output_text THEN <<"--output-text">> ELSE << >>)
  \o <<"--output-proto", output_proto>>
  \o (IF controller_params.inode_textcache # Nothing
        THEN <<"--inode-textcache", ValueOf(controller_params.inode_textcache)>>
        ELSE << >>)
  \o (IF controller_params.verbose THEN <<"--verbose">> ELSE << >>)

\* argv is the vector the spec prescribes for the histories, the output path
\* and the parameters.
ArgvAsSpecified(argv, histories, output_proto, controller_params) ==
  LET inputs == SelectSeq(histories, HasRawTrace)
      N == Len(inputs)
      options == ArgvOptions(output_proto, controller_params)
  IN /\ Len(argv) = 3 * N + Len(options)
     /\ \A i \in 1..N :
          /\ argv[i] = RawTracePath(inputs[i])
          /\ argv[N + 2 * i - 1] = "--timestamp_limit_ns"
          /\ argv[N + 2 * i] = ToString(EffectiveLimit(inputs[i]))
     /\ SubSeq(argv, 3 * N + 1, Len(argv)) = options

\* C21: the argument vector is the N input paths in history order, then N
\* pairs '--timestamp_limit_ns <ts_i>' in the same order, then '--output-text'
\* iff output_text, '--output-proto <path>', '--inode-textcache <path>' iff
\* present and '--verbose' iff verbose; a history without a raw trace gives
\* neither an input nor a timestamp.
C21_ArgvComposition ==
  [][\A t \in Threads :
       (At(t, "MakeCompilerParams") /\ Steps(t)) =>
         ArgvAsSpecified(ret'[t].argv_vec, frame[t].histories, frame[t].output_proto,
                         frame[t].controller_params)]_vars

\* The vector for a history with a drawn time, one without a raw trace and one
\* with a total time only, with no option set.
C21_Witness ==
  /\ pc[Worker] = "Execve"
  /\ Len(frame[Worker].histories) = 3
  /\ frame[Worker].histories[2].id = 5
  /\ ret[Worker].argv_vec =
       <<"t1.pb", "t2.pb", "--timestamp_limit_ns", "100", "--timestamp_limit_ns", "250",
         "--output-proto", "compiled.pb">>

\* ---- C22
\* C22: the effective timestamp limit of a history is report_fully_drawn_ns
\* when that is set (also when total_time_ns is set too), otherwise
\* total_time_ns when that is set, otherwise the largest 64-bit unsigned value.
C22_EffectiveTimestampLimit ==
  [][\A t \in Threads :
       (At(t, "GetPerfettoTraceInfo") /\ Steps(t)) =>
         LET inputs == SelectSeq(frame[t].histories, HasRawTrace)
             traces == frame'[t].perfetto_traces
         IN /\ Len(traces) = Len(inputs)
            /\ \A i \in 1..Len(inputs) :
                 LET drawn == inputs[i].report_fully_drawn_ns
                     total == inputs[i].total_time_ns
                     limit == traces[i].timestamp_limit_ns
                 IN /\ drawn # Nothing => limit = ValueOf(drawn)
                    /\ (drawn = Nothing /\ total # Nothing) => limit = ValueOf(total)
                    /\ (drawn = Nothing /\ total = Nothing) => limit = kUint64Max]_vars

\* The limits of a history with both times, of one with a total time only and
\* of one with no time.
C22_Witness ==
  /\ pc[Worker] = "CompilerForkParameters"
  /\ frame[Worker].histories =
       <<[id |-> 1, report_fully_drawn_ns |-> Some(100), total_time_ns |-> Some(150)],
         [id |-> 2, report_fully_drawn_ns |-> Nothing, total_time_ns |-> Some(250)],
         [id |-> 1, report_fully_drawn_ns |-> Nothing, total_time_ns |-> Nothing]>>
  /\ frame[Worker].perfetto_traces =
       <<[filename |-> "t1.pb", timestamp_limit_ns |-> 100],
         [filename |-> "t2.pb", timestamp_limit_ns |-> 250],
         [filename |-> "t1.pb", timestamp_limit_ns |-> kUint64Max]>>

\* ---- C23
\* What the sink has been called with for the request t handles or has handled.
CallbacksOf(t) ==
  IF frame[t].mode = "request" THEN frame[t].callbacks
  ELSE IF ret[t].op = "On_Event" THEN ret[t].callbacks
  ELSE << >>

Completions(callbacks) ==
  Cardinality({i \in 1..Len(callbacks) : callbacks[i] = "OnComplete"})

ChildRuns(t) == pc[t] = "StartViaFork_wait"

\* C24: at any time at most one compile of a given activity is in progress:
\* whatever the interleaving of concurrent calls of the entry points, no two
\* compiler children for the same (package, activity, version) run at once.
C24_OneCompilePerActivity ==
  \A t, u \in Threads :
    (t # u /\ ChildRuns(t) /\ ChildRuns(u)) =>
      JobFilePath(Head(frame[t].todo)) # JobFilePath(Head(frame[u].todo))

\* ---- C25
\* The tracker's Destroy has removed h: the engine got a Destroy(h), which only
\* Destroy of a tracked handle sends, and h is out of the map.
WasDestroyed(h) == ~Tracked(h) /\ raw_.destroys[h] >= 1

\* C25: once Destroy(h) has removed a tracked handle h, every later
\* GetOrInferHandleDescription(h) returns the kind Destroyed, whatever was
\* created or destroyed in between and in whatever order.
C25_DestroyedStaysDestroyed ==
  [][\A t \in Threads :
       (At(t, "GetOrInfer_body") /\ Steps(t) /\ WasDestroyed(arg[t])) =>
         ret'[t].kind_ = "kDestroyed"]_vars

\* ---- C28
\* C28: last_destroyed never decreases: after any tracker operation, also a
\* Destroy of handles in an order other than that of their creation, it is
\* greater than or equal to its value before.
C28_LastDestroyedMonotone == [][last_destroyed_' >= last_destroyed_]_vars

\* ---- C27
\* C27: if the engine issues the handles 1, 2, 3, ... in increasing order, no
\* Create aborts, however the Create calls of the threads interleave between
\* the engine call and the critical section.
C27_SoundEngineNeverAborts == raw_.monotone => ~aborted

\* ---- C29
LiveKinds == {"kCreated", "kStartedTracing", "kReadTracing"}

\* What holds of the tracker whenever its mutex is free, that is between the
\* critical sections of its operations.
TrackerInvariant ==
  /\ 0 <= last_destroyed_
  /\ last_destroyed_ <= last_created_
  /\ \A h \in DOMAIN states_ :
       /\ h \in 1..last_created_
       /\ states_[h].kind_ \in LiveKinds

\* A step that adds a handle to the map is the critical section of a Create.
OnlyCreateAdds ==
  \A h \in Handles :
    (~Tracked(h) /\ h \in DOMAIN states_') =>
      \E t \in Threads : pc[t] = "Create_body" /\ arg[t] = h /\ Steps(t)

ChildCompiled(t) ==
  WIFEXITED(frame[t].wstatus) /\ WEXITSTATUS(frame[t].wstatus) = 0

\* No PrefetchFile row names the file.
NoRowFor(path) ==
  \A i \in 1..Len(prefetch_files) : prefetch_files[i].file_path # path

\* C26: when the child has compiled successfully and the PrefetchFile insert
\* fails, the per-activity compile returns failure and the output file stays on
\* disk; a later per-activity run with recompile = false for a file that is on
\* disk without a row returns success on the file alone: no child is forked
\* and no PrefetchFile row is inserted.
C26_FailedInsertThenShortCircuit ==
  [][\A t \in Threads :
       /\ (At(t, "StartViaFork_status") /\ Steps(t) /\ ChildCompiled(t)
            /\ prefetch_files' = prefetch_files) =>
             /\ JobEndsWith(t, FALSE)
             /\ JobFilePath(Head(frame[t].todo)) \in disk'
       /\ (At(t, "CompileActivity") /\ Steps(t) /\ OutputShortCircuits(t)
            /\ NoRowFor(JobFilePath(Head(frame[t].todo)))) =>
             /\ JobEndsWith(t, TRUE)
             /\ pc'[t] # "CompileActivity_lock"
             /\ UNCHANGED <<prefetch_files, compiles, disk>>]_vars

\* Main was compiled once and its insert failed: the file is on disk and no
\* row exists. A later pass over the package with recompile = false has
\* finished the job of Main with success and is at Settings, still with one
\* fork and no row.
C26_Witness ==
  /\ pc[Worker] = "CompileActivity"
  /\ frame[Worker].mode = "package"
  /\ ~frame[Worker].params.recompile
  /\ frame[Worker].results = <<TRUE>>
  /\ Head(frame[Worker].todo).activity_name = "Settings"
  /\ CalculateNewestFilePath("pkg", "Main", 1) \in disk
  /\ prefetch_files = << >>
  /\ compiles = 1

====
